---- MODULE Spec2Model ----
(***************************************************************************)
(* A model of the eflips simulation core: the energy storage and charge    *)
(* controller (energy.py), the slot pool of a charging facility            *)
(* (charging.py), the per-interval charging process of a vehicle           *)
(* (vehicle.py) and the depot with charging (simpleDepot.py), all running  *)
(* on the event queue of the simulation kernel.                            *)
(*                                                                         *)
(* Time is in seconds, energy in kWh, flows in kW, as in the source.  The  *)
(* flows of the model are multiples of SecPerHour so that every            *)
(* integration flow * duration / 3600 is a whole number of kWh and the     *)
(* integer division of the model is the division of the source.            *)
(***************************************************************************)
EXTENDS Integers, Sequences, FiniteSets, TLC

VARIABLES
    now,        \* env.now
    queue,      \* the kernel's event queue, ordered by (time, priority, insertion)
    cfg,        \* the parameter record of the run (read-only after Init)
    veh,        \* the vehicles created so far: storage, controller, interfaces
    items,      \* per facility: the free slots of its SlotPool
    get_queue,  \* per facility: the waiting slot requests (SlotPool.get_queue)
    cps,        \* the _charging_process instances started so far
    chg,        \* the DepotWithCharging._charge processes started so far
    mis,        \* the Dispatcher.run_schedule processes, one per schedule
    depot,      \* the queues of the DepotWithCharging
    err,        \* "" or the error that aborted the run
    hist,       \* history kept for the properties (never read by the actions)
    ports,      \* a MultiPort with its ports, examined on its own
    tinfo,      \* TimeInfo objects and the results of their arithmetic
    gen,        \* a call of the schedule generator
    drv         \* a driver taking a vehicle through the legs of a schedule

\* the state of a simulation run
run == <<now, queue, cfg, veh, items, get_queue, cps, chg, mis, depot, err, hist>>
\* the state of the components examined on their own
apart == <<ports, tinfo, gen, drv>>
vars == <<now, queue, cfg, veh, items, get_queue, cps, chg, mis, depot, err, hist, ports, tinfo, gen, drv>>

----------------------------------------------------------------------------
(* Bounds of the model. *)

\* schedules the dispatcher runs in Spec
NumSchedules == 3
\* latest departure of a schedule in Spec
MaxDeparture == 8
\* the schedules of Spec depart at multiples of this many seconds
DepartureStep == 4
\* longest dead time of the depot after charging
MaxDeadTimeAfter == 2
\* energy_max of every storage, in kWh
EnergyMax == 4
\* last second at which the environment of SpecStorage acts
MaxTime == 5
\* CHARGING_UPDATE_INTERVAL of the runs, in seconds
UpdateInterval == 2
\* changes the environment of SpecStorage makes to one storage
MaxChanges == 4
\* vehicles that arrive at the stop in SpecCharging
NumVehicles == 3
\* last second at which a vehicle arrives at the stop in SpecCharging
MaxArrival == 2
\* slots of each charging facility
Capacity == 1
\* duration of each leg's segment, in seconds
DriveTime == 1
\* params['range_estimation_consumption'], in kWh per km
RangeEstimationConsumption == 1

(* Program constants. *)

\* seconds per hour in EnergyFlow.integrate and in time_until_full
SecPerHour == 3600

(* Inputs of the runs. *)

\* the flow that stores one kWh per second at the run's charge efficiency
\* cfg.eff = <<numerator, denominator>>
UnitFlow == SecPerHour * cfg.eff[2]
\* max_flow_stationary of both interface types
ChargePower == 2 * UnitFlow
\* the traction and auxiliary load while driving
DriveLoad == 1 * UnitFlow
\* flow_limit_upper of a storage that is not full
FlowLimitUpperAbs == 1 * UnitFlow

VehicleTypes == {"a", "b"}
\* the pauses of the schedules at the stop, in seconds
PauseTimes == {1, 3}
Facilities == {"depot", "stop"}
\* the vehicle-side interfaces in order of preference: 1 fits the depot's
\* facility, 2 the stop's
Interfaces == {1, 2}
InterfaceAt(f) == IF f = "depot" THEN 1 ELSE 2

----------------------------------------------------------------------------
(* Energy: EnergyFlow.integrate, EnergyStorage, ChargeController. *)

Abs(x) == IF x < 0 THEN -x ELSE x
Max(a, b) == IF a >= b THEN a ELSE b

\* EnergyFlow.integrate: energy_ref * duration / 3600
integrate(flow, duration) == (flow * duration) \div SecPerHour

\* EnergyStorage.is_full
is_full(energy) ==
    /\ 99999 * EnergyMax < 100000 * energy
    /\ 100000 * energy < 100001 * EnergyMax

\* a storage that accepts its full flow even when it is full
flow_limit_upper_unlimited(energy) == FlowLimitUpperAbs

\* EnergyStorage.flow_limit_upper
flow_limit_upper(energy) == IF is_full(energy) THEN 0 ELSE FlowLimitUpperAbs

\* EnergyStorage.soc_valid
soc_valid(energy) == ~(energy < 0)

\* EnergyStorage._charge: the energy added over duration at the held flow,
\* with the charge or discharge efficiency eff = <<numerator, denominator>>
energy_charged(flow, duration, eff) ==
    LET e == integrate(flow, duration)
    IN  IF e >= 0 THEN (e * eff[1]) \div eff[2] ELSE (e * eff[2]) \div eff[1]

\* a time until full that leaves out the charge efficiency
time_until_full_no_efficiency(energy, flow, eff) ==
    ((EnergyMax - energy) * SecPerHour) \div flow

\* time_until_full of EnergyStorage._update
time_until_full(energy, flow, eff) ==
    ((EnergyMax - energy) * SecPerHour * eff[2]) \div (flow * eff[1])

\* ChargeController._select_charging_power: both interface types are
\* stationary ones, whose max_flow_in_motion is 0
max_supply(v) ==
    IF v.ctrl_conn # 0
    THEN IF v.driving THEN 0 ELSE ChargePower
    ELSE 0

\* a controller that serves the load from the storage alone
controller_flows_storage_only(L, S, limit) ==
    [interface_to_load |-> 0,
     load_to_interface |-> 0,
     load_to_storage |-> IF L < 0 THEN Abs(L) ELSE 0,
     storage_to_load |-> IF L >= 0 THEN L ELSE 0,
     interface_to_storage |-> 0]

\* ChargeController._update: the five flows for load flow L, supply S and
\* the storage's upper flow limit
controller_flows(L, S, limit) ==
    IF L >= 0
    THEN LET i2l == IF S > L THEN L ELSE S
             i2s_max == S - i2l
         IN  [interface_to_load |-> i2l,
              load_to_interface |-> 0,
              load_to_storage |-> 0,
              storage_to_load |-> L - i2l,
              interface_to_storage |->
                  IF i2s_max <= limit THEN i2s_max ELSE limit]
    ELSE LET l2s == IF Abs(L) <= limit THEN Abs(L) ELSE limit
             i2s_max == limit - l2s
         IN  [interface_to_load |-> 0,
              load_to_interface |-> Abs(L) - l2s,
              load_to_storage |-> l2s,
              storage_to_load |-> 0,
              interface_to_storage |->
                  IF i2s_max <= S THEN i2s_max ELSE S]

\* a controller whose interface port never carries recuperated power
interface_port_flow_supply_only(fl) ==
    fl.interface_to_load + fl.interface_to_storage

\* the value ChargeController._update assigns to interface_port.flow
interface_port_flow(fl) ==
    fl.interface_to_load + fl.interface_to_storage - fl.load_to_interface

\* bidirectional of both interface types: the default of
\* ChargingInterfaceType
InterfaceBidirectional == FALSE

\* ChargeController._bidirectional: the connected interface type's
\* bidirectional, False while no interface is connected
bidirectional(v) == v.ctrl_conn # 0 /\ InterfaceBidirectional

\* ChargeController._update up to the assignment of interface_port.flow
interface_update(v) ==
    [v EXCEPT !.iport =
        interface_port_flow(controller_flows(v.load, max_supply(v),
                                             flow_limit_upper(v.energy)))]

\* the value ChargeController._update assigns to charge_port.flow
charge_port_flow(v) ==
    LET fl == controller_flows(v.load, max_supply(v),
                               flow_limit_upper(v.energy))
    IN  fl.storage_to_load - (fl.load_to_storage + fl.interface_to_storage)

\* what a chain of synchronous updates leaves behind: the vehicle, whether
\* 'Invalid charging state' was raised, the durations handed to
\* _schedule_update and whether fully_charged_event fired
NoUpdate(v) == [v |-> v, raise |-> FALSE, sched |-> <<>>, fire |-> FALSE]

\* a storage update that goes on whatever the state of charge is
storage_update_never_raises(v, T) ==
    LET ch == energy_charged(v.sflow, T - v.last_update, cfg.eff)
        e1 == v.energy + ch
        f1 == (-1) * v.cport
        tuf == IF f1 > 0 THEN time_until_full(e1, f1, cfg.eff) ELSE 0
    IN  [v |-> [v EXCEPT !.energy = e1, !.sflow = f1, !.last_update = T,
                         !.was_valid = @ /\ soc_valid(e1)],
         raise |-> FALSE,
         sched |-> IF f1 > 0 /\ tuf > 0
                   THEN IF cfg.force /\ ~(tuf < UpdateInterval)
                        THEN <<UpdateInterval>>
                        ELSE <<tuf>>
                   ELSE <<>>,
         fire |-> ch > 0 /\ is_full(e1)]

\* EnergyStorage._update at time T (the port already holds v.cport)
storage_update(v, T) ==
    LET ch == energy_charged(v.sflow, T - v.last_update, cfg.eff)
        e1 == v.energy + ch
        f1 == (-1) * v.cport
        tuf == IF f1 > 0 THEN time_until_full(e1, f1, cfg.eff) ELSE 0
        bad == ~soc_valid(e1) /\ ~cfg.allow_invalid
    IN  [v |-> [v EXCEPT !.energy = e1, !.sflow = f1, !.last_update = T,
                         !.was_valid = @ /\ soc_valid(e1)],
         raise |-> bad,
         sched |-> IF ~bad /\ f1 > 0 /\ tuf > 0
                   THEN IF cfg.force /\ ~(tuf < UpdateInterval)
                        THEN <<UpdateInterval>>
                        ELSE <<tuf>>
                   ELSE <<>>,
         fire |-> ~bad /\ ch > 0 /\ is_full(e1)]

\* the first subscriber of fully_charged_event, ChargeController._update,
\* run after the storage update r fired the event
fully_charged(r, T) ==
    LET p == charge_port_flow(r.v)
        w == interface_update(r.v)
    IN  IF p = r.v.cport
        THEN [r EXCEPT !.v = w]
        ELSE LET r2 == storage_update([w EXCEPT !.cport = p], T)
             IN  [v |-> r2.v, raise |-> r2.raise,
                  sched |-> r.sched \o r2.sched, fire |-> TRUE]

\* Port.flow := p on the storage port: the storage updates, and the
\* subscribers of fully_charged_event run if it fires
port_update(v, p, T) ==
    LET r == storage_update([v EXCEPT !.cport = p], T)
    IN  IF r.fire THEN fully_charged(r, T) ELSE r

\* ChargeController._update: the storage hears of it only when the flow
\* of its port changes
controller_update(v, T) ==
    LET p == charge_port_flow(v)
        w == interface_update(v)
    IN  IF p = v.cport THEN NoUpdate(w) ELSE port_update(w, p, T)

\* force_update_event(): EnergyStorage._update, then ChargeController._update
force_update(v, T) ==
    LET r == port_update(v, v.cport, T)
    IN  IF r.raise
        THEN r
        ELSE LET r2 == controller_update(r.v, T)
             IN  [v |-> r2.v, raise |-> r2.raise,
                  sched |-> r.sched \o r2.sched,
                  fire |-> r.fire \/ r2.fire]

\* ChargeController._connect_interface for interface i: the RuntimeError of
\* line 598 is constructed but never raised
connect_interface(v, i, T) ==
    controller_update([v EXCEPT !.ctrl_conn = i], T)

\* ChargeController._disconnect_interface
disconnect_interface(v, T) ==
    controller_update([v EXCEPT !.ctrl_conn = 0], T)

\* ChargeController._driving_state_change
driving_state_change(v, d, T) ==
    controller_update([v EXCEPT !.driving = d], T)

\* load_port.flow := l (Port.flow notifies only when the value changes)
load_change(v, l, T) ==
    IF l = v.load THEN NoUpdate(v)
    ELSE controller_update([v EXCEPT !.load = l], T)

----------------------------------------------------------------------------
(* The simulation kernel: a queue of events ordered by time, then priority *)
(* (process starts and interrupts are urgent), then insertion.             *)

Urgent(T, k, id, x) == [t |-> T, p |-> 0, k |-> k, id |-> id, x |-> x]
Normal(T, k, id, x) == [t |-> T, p |-> 1, k |-> k, id |-> id, x |-> x]

\* Environment.schedule: e goes behind every event it does not precede
Insert(q, e) ==
    LET n == Cardinality({j \in 1..Len(q) :
                 q[j].t < e.t \/ (q[j].t = e.t /\ q[j].p <= e.p)})
    IN  SubSeq(q, 1, n) \o <<e>> \o SubSeq(q, n + 1, Len(q))

RECURSIVE Schedule(_, _)
Schedule(q, evs) ==
    IF evs = <<>> THEN q ELSE Schedule(Insert(q, Head(evs)), Tail(evs))

Range(s) == {s[j] : j \in 1..Len(s)}

\* the state a handler works on, and the events it has scheduled so far
World ==
    [veh |-> veh, items |-> items, get_queue |-> get_queue, cps |-> cps,
     chg |-> chg, mis |-> mis, depot |-> depot, err |-> err, hist |-> hist,
     evs |-> <<>>]

\* Environment.step: the head of the queue is an event of kind k
Due(k) == err = "" /\ queue # <<>> /\ Head(queue).k = k

\* the handler of the head event has run and left w
Commit(w) ==
    /\ now' = Head(queue).t
    /\ queue' = Schedule(Tail(queue), w.evs)
    /\ veh' = w.veh /\ items' = w.items /\ get_queue' = w.get_queue
    /\ cps' = w.cps /\ chg' = w.chg /\ mis' = w.mis /\ depot' = w.depot
    /\ err' = w.err /\ hist' = w.hist
    /\ cfg' = cfg
    /\ UNCHANGED apart

\* a handler called from outside the queue at the current time has left w
CommitNow(w) ==
    /\ now' = now
    /\ queue' = Schedule(queue, w.evs)
    /\ veh' = w.veh /\ items' = w.items /\ get_queue' = w.get_queue
    /\ cps' = w.cps /\ chg' = w.chg /\ mis' = w.mis /\ depot' = w.depot
    /\ err' = w.err /\ hist' = w.hist
    /\ cfg' = cfg
    /\ UNCHANGED apart

\* the update chain r of vehicle i takes effect: the processes that
\* EnergyStorage._update starts with _schedule_update, and the simpy events
\* subscribed by _generate_fully_charged_event, which succeed() when
\* fully_charged_event fires; succeed() of a triggered event is an error
ApplyUpdate(w, i, r, T) ==
    LET subs == r.v.subs
        fired == r.fire /\ ~r.raise
        twice == fired /\ \E j \in 1..Len(subs) :
                              w.cps[subs[j]].fullev # "pending"
    IN  [w EXCEPT
           !.veh[i] = [r.v EXCEPT !.fired = IF fired THEN @ + 1 ELSE @,
                                  !.tfull = IF fired THEN T ELSE @],
           !.err = IF r.raise THEN "Invalid charging state"
                   ELSE IF twice THEN "event has already been triggered"
                   ELSE @,
           !.cps = IF fired /\ ~twice
                   THEN [c \in DOMAIN w.cps |->
                           IF c \in Range(subs)
                           THEN [w.cps[c] EXCEPT !.fullev = "triggered"]
                           ELSE w.cps[c]]
                   ELSE @,
           !.evs = IF r.raise \/ twice THEN @
                   ELSE @ \o [j \in 1..Len(r.sched) |->
                                 Urgent(T, "SuInit", i, r.sched[j])]
                          \o (IF fired
                              THEN [j \in 1..Len(subs) |->
                                      Normal(T, "FullOk", subs[j], 0)]
                              ELSE <<>>)]

\* EnergyStorage._schedule_update starts: yield env.timeout(duration)
SuInit ==
    /\ Due("SuInit")
    /\ LET e == Head(queue)
       IN  Commit([World EXCEPT
                     !.evs = <<Normal(e.t + e.x, "SuFire", e.id, 0)>>])

\* EnergyStorage._schedule_update resumes: force_update_event()
SuFire ==
    /\ Due("SuFire")
    /\ LET e == Head(queue)
       IN  Commit(ApplyUpdate(World, e.id,
                              force_update(veh[e.id], e.t), e.t))

\* a vehicle as Fleet.create_vehicle builds it, with energy e at location l
NewVehicle(typ, e, l) ==
    [typ |-> typ, loc |-> l, driving |-> FALSE,
     energy |-> e, sflow |-> 0, last_update |-> now, cport |-> 0,
     iport |-> 0, load |-> 0, ctrl_conn |-> 0, was_valid |-> TRUE,
     docked |-> [i \in Interfaces |-> FALSE],
     conn |-> [i \in Interfaces |-> "none"],
     handler |-> 0, subs |-> <<>>, fired |-> 0,
     returned |-> 0, cycle |-> "new", readied |-> 0,
     cyc |-> 0, tfull |-> -1, tready |-> -1]

----------------------------------------------------------------------------
(* The slot pool of a charging facility (charging.py). *)

\* the facility of an event's id
Fac == <<"depot", "stop">>
FacId(f) == IF f = "depot" THEN 1 ELSE 2

\* a facility that always looks vacant
always_vacant(w, f) == Capacity > 0

\* ChargingFacility.is_vacant: slots.count < capacity
is_vacant(w, f) == (Capacity - Cardinality(w.items[f])) < Capacity

\* BaseResource._trigger_get with PriorityStore._do_get: the request at
\* the head of the queue gets the free slot of the lowest ID
trigger_get(w, f, T) ==
    IF w.get_queue[f] # <<>> /\ w.items[f] # {}
    THEN LET c == Head(w.get_queue[f])
             slot == CHOOSE x \in w.items[f] : \A y \in w.items[f] : x <= y
         IN  [w EXCEPT !.get_queue[f] = Tail(@),
                       !.items[f] = @ \ {slot},
                       !.cps[c].req = "granted",
                       !.cps[c].slot = slot,
                       !.cps[c].tgrant = T,
                       !.evs = Append(@, Normal(T, "GetOk", c, 0))]
    ELSE w

\* a request that is served at once or not at all: it never waits
request_without_queue(w, c, T) ==
    LET f == w.cps[c].f
    IN  IF w.items[f] # {} /\ w.get_queue[f] = <<>>
        THEN trigger_get([w EXCEPT !.get_queue[f] = Append(@, c),
                                   !.cps[c].req = "queued"], f, T)
        ELSE w

\* ChargingFacility.request for the request handler of c
facility_request(w, c, T) ==
    LET f == w.cps[c].f
        w1 == trigger_get([w EXCEPT !.get_queue[f] = Append(@, c),
                                    !.cps[c].req = "queued"], f, T)
    IN  [w1 EXCEPT !.cps[c].enq = (w1.cps[c].req = "queued")]

\* the time of the first release of the request of c
first_release(cp, T) == IF cp.trel < 0 THEN T ELSE cp.trel

\* a release that leaves a waiting request in the facility's queue
release_without_cancel(w, c, T) ==
    LET f == w.cps[c].f
    IN  IF w.cps[c].req = "queued"
        THEN [w EXCEPT !.cps[c].released = TRUE,
                       !.cps[c].trel = first_release(w.cps[c], T)]
        ELSE IF w.cps[c].slot \notin w.items[f]
        THEN [w EXCEPT !.items[f] = @ \cup {w.cps[c].slot},
                       !.cps[c].released = TRUE,
                       !.cps[c].trel = first_release(w.cps[c], T),
                       !.cps[c].rels = @ + 1,
                       !.cps[c].puts = @ + 1,
                       !.evs = Append(@, Normal(T, "PutOk", FacId(f), 0))]
        ELSE [w EXCEPT !.cps[c].released = TRUE,
                       !.cps[c].trel = first_release(w.cps[c], T),
                       !.cps[c].rels = @ + 1]

\* ChargingFacility.release, SlotPool.release for the request of c: a
\* waiting request is cancelled, a granted slot is put back unless a slot
\* of that ID is free already; rels counts the calls for a granted request
facility_release(w, c, T) ==
    LET f == w.cps[c].f
    IN  IF w.cps[c].req = "queued"
        THEN [w EXCEPT !.get_queue[f] =
                           SelectSeq(@, LAMBDA d : d # c),
                       !.cps[c].req = "cancelled",
                       !.cps[c].released = TRUE,
                       !.cps[c].trel = first_release(w.cps[c], T)]
        ELSE IF w.cps[c].slot \notin w.items[f]
        THEN [w EXCEPT !.items[f] = @ \cup {w.cps[c].slot},
                       !.cps[c].released = TRUE,
                       !.cps[c].trel = first_release(w.cps[c], T),
                       !.cps[c].rels = @ + 1,
                       !.cps[c].puts = @ + 1,
                       !.evs = Append(@, Normal(T, "PutOk", FacId(f), 0))]
        ELSE [w EXCEPT !.cps[c].released = TRUE,
                       !.cps[c].trel = first_release(w.cps[c], T),
                       !.cps[c].rels = @ + 1]

----------------------------------------------------------------------------
(* The charging process of a vehicle over one interval (vehicle.py). *)

B2N(b) == IF b THEN 1 ELSE 0

\* the time remaining when no dead time and no manoeuvre is counted
time_remaining_of_duration(max_duration, time_passed, min_charge_duration, charge, manoeuvre_before, manoeuvre_after, dock, undock) ==
    max_duration - time_passed

\* VehicleAbstract._get_time_remaining
get_time_remaining(max_duration, time_passed, min_charge_duration, charge, manoeuvre_before, manoeuvre_after, dock, undock) ==
    max_duration - time_passed
        - B2N(charge) * min_charge_duration
        - B2N(dock) * cfg.dead_time
        - B2N(undock) * cfg.dead_time
        - B2N(manoeuvre_before) * cfg.manoeuvre
        - B2N(manoeuvre_after) * cfg.manoeuvre

\* VehicleAbstract._select_interface: the vehicle's interface for the
\* facility at the location, 0 where there is none
select_interface(location) ==
    IF location \in Facilities THEN InterfaceAt(location) ELSE 0

\* VehicleAbstract._get_dock_actions: <<dock, undock>>; no interface type
\* of the model has dynamic_undock
get_dock_actions(v, i, next_location) ==
    <<~v.docked[i],
      IF select_interface(next_location) # 0
      THEN select_interface(next_location) # i /\ ~cfg.dynamic_undock
      ELSE TRUE>>

\* a _charging_process for vehicle v at facility f with interface i, started
\* by owner (kind ok, id oid) for an interval of duration dur
NewCp(v, f, next, dur, par, ok, oid) ==
    [v |-> v, f |-> f, i |-> InterfaceAt(f), next |-> next, dur |-> dur,
     try |-> par.try, queue |-> par.queue, full |-> par.full,
     rwf |-> par.rwf, minc |-> par.minc,
     ok |-> ok, oid |-> oid,
     t0 |-> 0, queueing |-> FALSE, undock |-> FALSE,
     pc |-> "init", rh |-> "none", req |-> "none", slot |-> 0,
     granted |-> FALSE, released |-> FALSE, puts |-> 0,
     fc |-> "none", fullev |-> "none", fct0 |-> 0, fcmax |-> 0,
     connected |-> FALSE, interrupted |-> FALSE,
     rtk |-> -1, timedout |-> -1, docks |-> FALSE, enq |-> FALSE,
     tgrant |-> -1, tconn |-> -1, trel |-> -1, rels |-> 0, xlog |-> <<>>]

\* the process ends: its owner hears of it when the process event is handled
cp_finish(w, c, T) ==
    [w EXCEPT !.cps[c].pc = "done",
              !.evs = Append(@, Normal(T, "CpEnd", c, 0))]

\* the waits until the end of the interval of lines 640-641 and 645-646
cp_wait_end(w, c, T, time_remaining) ==
    IF time_remaining > 0
    THEN [w EXCEPT !.cps[c].pc = "wait_end",
                   !.evs = Append(@, Normal(T + time_remaining, "CpT", c, 0))]
    ELSE cp_finish(w, c, T)

\* _charging_process from its start to its first yield (lines 511-574)
cp_start(w, c, T) ==
    LET cp == w.cps[c]
        vacant == is_vacant(w, cp.f)
        skip == ~cp.try \/ (~vacant /\ ~cp.queue)
        queueing == ~vacant
        da == get_dock_actions(w.veh[cp.v], cp.i, cp.next)
        max_request_time ==
            get_time_remaining(cp.dur, 0, cp.minc,
                               TRUE, queueing, FALSE, da[1], da[2])
        w1 == [w EXCEPT !.cps[c].t0 = T]
        w2 == [w1 EXCEPT !.cps[c].queueing = queueing,
                         !.cps[c].undock = da[2],
                         !.cps[c].pc = "wait_rh",
                         !.cps[c].rh = "init"]
    IN  IF skip
        THEN cp_wait_end(w1, c, T, cp.dur)
        ELSE IF cp.full
        THEN [w2 EXCEPT !.evs = Append(@, Urgent(T, "RhInit", c, 0))]
        ELSE IF max_request_time >= 0
        THEN [w2 EXCEPT !.evs = @ \o
                  <<Urgent(T, "RhInit", c, 0),
                    Urgent(T, "RtkInit", c, max_request_time)>>]
        ELSE cp_wait_end([w1 EXCEPT !.cps[c].queueing = queueing,
                                    !.cps[c].undock = da[2]],
                         c, T, cp.dur)

\* ChargingInterface.connect and the controller's _connect_interface, then
\* the start of the charging handler (lines 586-629)
cp_connect(w, c, T) ==
    LET cp == w.cps[c]
        v == w.veh[cp.v]
        time_passed == T - cp.t0
        time_remaining == cp.dur - time_passed
        max_charge_time ==
            get_time_remaining(cp.dur, time_passed, cp.minc,
                               FALSE, FALSE, FALSE, FALSE, cp.undock)
        w1 == ApplyUpdate(w, cp.v,
                  connect_interface([v EXCEPT !.conn[cp.i] = cp.f],
                                    cp.i, T), T)
        w2 == [w1 EXCEPT !.veh[cp.v].handler = c,
                         !.cps[c].connected = TRUE,
                         !.cps[c].tconn = T,
                         !.cps[c].pc = "wait_fc",
                         !.cps[c].fc = "init",
                         !.cps[c].fcmax = time_remaining]
    IN  IF v.conn[cp.i] # "none"
        THEN [w EXCEPT !.err = "Tried to connect to charging facility"]
        ELSE IF w1.err # ""
        THEN w1
        ELSE IF cp.full
        THEN [w2 EXCEPT !.evs = Append(@, Urgent(T, "FcInit", c, 0))]
        ELSE IF max_charge_time < 0
        THEN [w1 EXCEPT !.cps[c].connected = TRUE,
                        !.err = "Something went seriously wrong here."]
        ELSE [w2 EXCEPT !.evs = @ \o
                  <<Urgent(T, "FcInit", c, 0),
                    Urgent(T, "CtkInit", c, max_charge_time)>>]

\* lines 583-586: dock the interface unless it is docked, then connect
cp_dock(w, c, T) ==
    LET cp == w.cps[c]
    IN  IF ~w.veh[cp.v].docked[cp.i]
        THEN [w EXCEPT !.cps[c].pc = "docking",
                       !.evs = Append(@, Urgent(T, "DockInit", c, 0))]
        ELSE cp_connect(w, c, T)

\* _charging_process resumes with the request handler's value (576-641)
cp_after_request(w, c, T) ==
    LET cp == w.cps[c]
    IN  IF cp.granted
        THEN IF cp.queueing
             THEN [w EXCEPT !.cps[c].pc = "man_before",
                            !.evs = Append(@,
                                Normal(T + cfg.manoeuvre, "CpT", c, 0))]
             ELSE cp_dock(w, c, T)
        ELSE cp_wait_end(w, c, T,
                 get_time_remaining(cp.dur, T - cp.t0, cp.minc,
                     FALSE, FALSE, FALSE, FALSE, FALSE))

\* the steps of the _release_facility that the except block (k = 2) runs
logged(xlog, k, step) == IF k = 2 THEN Append(xlog, step) ELSE xlog

\* a release that gives the slot back before the interface is undocked
release_before_undock(w, c, k, T) ==
    LET cp == w.cps[c]
        v == w.veh[cp.v]
        w0 == ApplyUpdate(w, cp.v,
                  disconnect_interface([v EXCEPT !.conn[cp.i] = "none"], T), T)
        w1 == [w0 EXCEPT !.cps[c].xlog = logged(@, k, "disconnect")]
        w2 == facility_release(w1, c, T)
        w3 == [w2 EXCEPT !.cps[c].xlog = logged(@, k, "release")]
    IN  IF w1.err # ""
        THEN w1
        ELSE IF cp.undock
        THEN [w3 EXCEPT !.evs = Append(@, Urgent(T, "UndockInit", c, k))]
        ELSE [w3 EXCEPT !.evs = Append(@, Normal(T, "RfEnd", c, k))]

\* _release_facility up to its yield: ChargingInterface.disconnect, then the
\* undocking process, or the release at once
release_facility(w, c, k, T) ==
    LET cp == w.cps[c]
        v == w.veh[cp.v]
        w0 == ApplyUpdate(w, cp.v,
                  disconnect_interface([v EXCEPT !.conn[cp.i] = "none"], T), T)
        w1 == [w0 EXCEPT !.cps[c].xlog = logged(@, k, "disconnect")]
    IN  IF w1.err # ""
        THEN w1
        ELSE IF cp.undock
        THEN [w1 EXCEPT !.evs = Append(@, Urgent(T, "UndockInit", c, k))]
        ELSE LET w2 == facility_release(w1, c, T)
             IN  [w2 EXCEPT !.cps[c].xlog = logged(@, k, "release"),
                            !.evs = Append(@, Normal(T, "RfEnd", c, k))]

\* the end of _finish_charging (lines 731-739): the last subscriber of
\* fully_charged_event is removed if it is a simpy event's succeed
fc_finish(w, c, T) ==
    LET i == w.cps[c].v
        subs == w.veh[i].subs
    IN  [w EXCEPT !.veh[i].subs =
                      IF subs = <<>> THEN subs
                      ELSE SubSeq(subs, 1, Len(subs) - 1),
                  !.cps[c].fc = "done",
                  !.evs = Append(@, Normal(T, "FcEnd", c, 0))]

\* _charging_process starts
CpInit ==
    /\ Due("CpInit")
    /\ Commit(cp_start(World, Head(queue).id, Head(queue).t))

\* _request_handler starts: req = facility.request(); yield req
RhInit ==
    /\ Due("RhInit")
    /\ LET c == Head(queue).id
       IN  Commit(facility_request([World EXCEPT !.cps[c].rh = "wait"],
                                   c, Head(queue).t))

\* the granted request is handled: the request handler, if it still waits
\* for it, returns the request
GetOk ==
    /\ Due("GetOk")
    /\ LET c == Head(queue).id
           T == Head(queue).t
       IN  Commit(IF cps[c].rh = "wait"
                  THEN [World EXCEPT !.cps[c].rh = "done",
                                     !.cps[c].granted = TRUE,
                                     !.evs = <<Normal(T, "RhEnd", c, 0)>>]
                  ELSE World)

\* the put of a released slot is handled: the pool serves its queue
PutOk ==
    /\ Due("PutOk")
    /\ Commit(trigger_get(World, Fac[Head(queue).id], Head(queue).t))

\* _timekeeper of the request starts: yield env.timeout(duration)
RtkInit ==
    /\ Due("RtkInit")
    /\ LET e == Head(queue)
       IN  Commit([World EXCEPT
                     !.cps[e.id].rtk = e.t + e.x,
                     !.evs = <<Normal(e.t + e.x, "RtkFire", e.id, 0)>>])

\* the timekeeper's timeout is handled: the timekeeper ends
RtkFire ==
    /\ Due("RtkFire")
    /\ LET e == Head(queue)
       IN  Commit([World EXCEPT !.evs = <<Normal(e.t, "RtkEnd", e.id, 0)>>])

\* the ended timekeeper's callback: interrupt_process(req_handler)
RtkEnd ==
    /\ Due("RtkEnd")
    /\ LET e == Head(queue)
       IN  Commit(IF cps[e.id].rh # "done"
                  THEN [World EXCEPT
                          !.evs = <<Urgent(e.t, "RhIntr", e.id, 0)>>]
                  ELSE World)

\* the interrupt reaches the request handler: facility.release(req), and
\* the handler returns None
RhIntr ==
    /\ Due("RhIntr")
    /\ LET c == Head(queue).id
           T == Head(queue).t
       IN  Commit(IF cps[c].rh = "wait"
                  THEN LET w == facility_release(World, c, T)
                       IN  [w EXCEPT !.cps[c].rh = "done",
                                     !.cps[c].granted = FALSE,
                                     !.cps[c].timedout = T,
                                     !.evs = Append(@,
                                         Normal(T, "RhEnd", c, 0))]
                  ELSE World)

\* the request handler has ended: _charging_process resumes
RhEnd ==
    /\ Due("RhEnd")
    /\ Commit(cp_after_request(World, Head(queue).id, Head(queue).t))

\* a timeout of _charging_process is handled: the manoeuvre to the slot
\* is over, or the interval is
CpT ==
    /\ Due("CpT")
    /\ LET c == Head(queue).id
           T == Head(queue).t
       IN  Commit(IF cps[c].pc = "man_before"
                  THEN cp_dock(World, c, T)
                  ELSE cp_finish(World, c, T))

\* ChargingInterface.dock starts: yield env.timeout(dead_time_dock)
DockInit ==
    /\ Due("DockInit")
    /\ LET e == Head(queue)
       IN  Commit([World EXCEPT
                     !.evs = <<Normal(e.t + cfg.dead_time, "DockT", e.id, 0)>>])

\* ChargingInterface.dock resumes: _is_docked = True
DockT ==
    /\ Due("DockT")
    /\ LET e == Head(queue)
           cp == cps[e.id]
       IN  Commit([World EXCEPT
                     !.veh[cp.v].docked[cp.i] = TRUE,
                     !.cps[e.id].docks = TRUE,
                     !.evs = <<Normal(e.t, "DockEnd", e.id, 0)>>])

\* docking has ended: _charging_process connects
DockEnd ==
    /\ Due("DockEnd")
    /\ Commit(cp_connect(World, Head(queue).id, Head(queue).t))

\* _finish_charging starts: it subscribes a simpy event to
\* fully_charged_event and waits for it
FcInit ==
    /\ Due("FcInit")
    /\ LET c == Head(queue).id
       IN  Commit([World EXCEPT
                     !.cps[c].fc = "wait_full",
                     !.cps[c].fct0 = Head(queue).t,
                     !.cps[c].fullev = "pending",
                     !.veh[cps[c].v].subs = Append(@, c)])

\* the fully-charged event of c is handled (lines 665-716)
FullOk ==
    /\ Due("FullOk")
    /\ LET c == Head(queue).id
           T == Head(queue).t
           cp == cps[c]
           time_remaining ==
               get_time_remaining(cp.fcmax, T - cp.fct0, cp.minc,
                   FALSE, FALSE, FALSE, FALSE, cp.undock)
           manoeuvre == cp.rwf /\ time_remaining >= cfg.manoeuvre
       IN  Commit(IF cp.fc # "wait_full"
                  THEN World
                  ELSE IF manoeuvre
                  THEN [World EXCEPT
                          !.cps[c].fc = "relA",
                          !.evs = <<Urgent(T, "RfInit", c, 1)>>]
                  ELSE [World EXCEPT
                          !.cps[c].fc = "stayB",
                          !.evs = <<Normal(T + Max(time_remaining, 0),
                                           "FcT", c, 3)>>])

\* a timeout of _finish_charging is handled (lines 697-720)
FcT ==
    /\ Due("FcT")
    /\ LET c == Head(queue).id
           T == Head(queue).t
           x == Head(queue).x
           cp == cps[c]
           time_remaining ==
               get_time_remaining(cp.fcmax, T - cp.fct0, cp.minc,
                   FALSE, FALSE, FALSE, FALSE, FALSE)
       IN  Commit(IF x = 1 /\ cp.fc = "manA"
                  THEN [World EXCEPT
                          !.cps[c].fc = "stayA",
                          !.evs = <<Normal(T + Max(time_remaining, 0),
                                           "FcT", c, 2)>>]
                  ELSE IF x = 2 /\ cp.fc = "stayA"
                  THEN fc_finish(World, c, T)
                  ELSE IF x = 3 /\ cp.fc = "stayB"
                  THEN [World EXCEPT
                          !.cps[c].fc = "relB",
                          !.evs = <<Urgent(T, "RfInit", c, 1)>>]
                  ELSE World)

\* _release_facility starts (x = 1: from the try block, 2: from the
\* except block)
RfInit ==
    /\ Due("RfInit")
    /\ LET e == Head(queue)
       IN  Commit(release_facility(World, e.id, e.x, e.t))

\* ChargingInterface.undock starts: _is_docked = False, then the timeout
UndockInit ==
    /\ Due("UndockInit")
    /\ LET e == Head(queue)
           cp == cps[e.id]
       IN  Commit([World EXCEPT
                     !.veh[cp.v].docked[cp.i] = FALSE,
                     !.cps[e.id].xlog = logged(@, e.x, "undock"),
                     !.evs = <<Normal(e.t + cfg.dead_time,
                                      "UndockT", e.id, e.x)>>])

\* the undocking timeout is handled: undock ends
UndockT ==
    /\ Due("UndockT")
    /\ LET e == Head(queue)
       IN  Commit([World EXCEPT
                     !.evs = <<Normal(e.t, "UndockEnd", e.id, e.x)>>])

\* undocking has ended: _release_facility releases the slot and ends
UndockEnd ==
    /\ Due("UndockEnd")
    /\ LET e == Head(queue)
           w == facility_release(World, e.id, e.t)
       IN  Commit([w EXCEPT
                     !.cps[e.id].xlog = logged(@, e.x, "release"),
                     !.evs = Append(@, Normal(e.t, "RfEnd", e.id, e.x))])

\* _release_facility has ended: _finish_charging resumes if it waits for it
RfEnd ==
    /\ Due("RfEnd")
    /\ LET c == Head(queue).id
           T == Head(queue).t
           x == Head(queue).x
       IN  Commit(IF x = 1 /\ cps[c].fc = "relA"
                  THEN [World EXCEPT
                          !.cps[c].fc = "manA",
                          !.evs = <<Normal(T + cfg.manoeuvre, "FcT", c, 1)>>]
                  ELSE IF (x = 1 /\ cps[c].fc = "relB")
                          \/ (x = 2 /\ cps[c].fc = "relX")
                  THEN fc_finish(World, c, T)
                  ELSE World)

\* an interrupt reaches _finish_charging: the except block releases the
\* facility; an interrupt inside the except block is not caught
FcIntr ==
    /\ Due("FcIntr")
    /\ LET c == Head(queue).id
           T == Head(queue).t
       IN  Commit(IF cps[c].fc = "done"
                  THEN World
                  ELSE IF cps[c].fc = "relX"
                  THEN [World EXCEPT !.err = "Interrupt"]
                  ELSE [World EXCEPT
                          !.cps[c].fc = "relX",
                          !.cps[c].interrupted = TRUE,
                          !.evs = <<Urgent(T, "RfInit", c, 2)>>])

\* _timekeeper of the charging handler starts
CtkInit ==
    /\ Due("CtkInit")
    /\ LET e == Head(queue)
       IN  Commit([World EXCEPT
                     !.evs = <<Normal(e.t + e.x, "CtkFire", e.id, 0)>>])

\* its timeout is handled: the timekeeper ends
CtkFire ==
    /\ Due("CtkFire")
    /\ LET e == Head(queue)
       IN  Commit([World EXCEPT !.evs = <<Normal(e.t, "CtkEnd", e.id, 0)>>])

\* the ended timekeeper's callback: interrupt_process of the handler that
\* subsystem.charging_handler_proc names by now
CtkEnd ==
    /\ Due("CtkEnd")
    /\ LET e == Head(queue)
           h == veh[cps[e.id].v].handler
       IN  Commit(IF cps[h].fc # "done"
                  THEN [World EXCEPT !.evs = <<Urgent(e.t, "FcIntr", h, 0)>>]
                  ELSE World)

----------------------------------------------------------------------------
(* The depot with charging and the dispatcher (simpleDepot.py), and the    *)
(* vehicle's side of a schedule (vehicle.py, schedule.py).  A schedule of  *)
(* the model has one leg from the depot to the stop, a pause there, and    *)
(* one leg back.  Where a handler does nothing but start a process, the    *)
(* start of that process is part of the handler's action.                  *)

\* the charging parameters VehicleAbstract.charge_full constructs
ChargeFullParams ==
    [try |-> TRUE, queue |-> TRUE, full |-> TRUE, rwf |-> TRUE, minc |-> 0]

\* no charging attempt (the charging schedule's entry for pauses at the depot)
NoChargingParams ==
    [try |-> FALSE, queue |-> FALSE, full |-> FALSE, rwf |-> FALSE, minc |-> 0]

\* membership in a deque
In(q, v) == \E j \in 1..Len(q) : q[j] = v

\* a removal that takes nothing out of the queue
Without_nothing(q, v) == q

\* _remove's "if vehicle in queue: queue.remove(vehicle)": deque.remove
\* takes out the first occurrence
Without(q, v) ==
    IF In(q, v)
    THEN LET j == CHOOSE i \in 1..Len(q) :
                      q[i] = v /\ \A k \in 1..(i - 1) : q[k] # v
         IN  SubSeq(q, 1, j - 1) \o SubSeq(q, j + 1, Len(q))
    ELSE q

\* the first member of q that is in the set S, 0 if there is none
First(q, S) ==
    IF \E j \in 1..Len(q) : q[j] \in S
    THEN q[CHOOSE j \in 1..Len(q) :
               q[j] \in S /\ \A k \in 1..(j - 1) : q[k] \notin S]
    ELSE 0

\* VehicleAbstract.range_estimate, with energy_min = 0
range_estimate(v) == v.energy \div RangeEstimationConsumption

\* a search of _vehicles_charging that does not look at the range
charging_match_any_range(w, typ, required_range) ==
    First(w.depot.charging, {u \in DOMAIN w.veh : w.veh[u].typ = typ})

\* request_vehicle's search of _vehicles_charging: the first vehicle of
\* the type with sufficient range, 0 if there is none
charging_match(w, typ, required_range) ==
    First(w.depot.charging,
          {u \in DOMAIN w.veh :
              /\ w.veh[u].typ = typ
              /\ range_estimate(w.veh[u]) >= required_range})

\* DepotWithCharging.request_vehicle from its start to its first yield,
\* for schedule s asking for type typ and range required_range
request_vehicle(w, s, typ, required_range, T) ==
    LET ready == First(w.depot.ready,
                       {u \in DOMAIN w.veh : w.veh[u].typ = typ})
        charging ==
            IF ready = 0 /\ cfg.interrupt_charging
            THEN charging_match(w, typ, required_range)
            ELSE 0
        vehicle == IF ready # 0 THEN ready ELSE charging
        removed == [w.depot EXCEPT
                      !.ready = Without(@, vehicle),
                      !.out_of_service = Without(@, vehicle),
                      !.charging = Without(@, vehicle)]
        w1 == [w EXCEPT !.mis[s].typ = typ,
                        !.mis[s].range = required_range,
                        !.mis[s].from = IF ready # 0 THEN "ready"
                                        ELSE IF charging # 0 THEN "charging"
                                        ELSE "new"]
    IN  IF vehicle # 0 /\ In(w.depot.in_service, vehicle)
        THEN [w1 EXCEPT !.err = "Tried to remove vehicle while in service"]
        ELSE IF charging # 0
        THEN [w1 EXCEPT !.depot = removed,
                        !.mis[s].v = vehicle,
                        !.mis[s].pc = "stopping",
                        !.evs = Append(@, Urgent(T, "StopInit", s, 0))]
        ELSE IF ready # 0
        THEN [w1 EXCEPT !.depot = [removed EXCEPT
                                     !.in_service = Append(@, vehicle)],
                        !.mis[s].v = vehicle,
                        !.mis[s].pc = "requested",
                        !.evs = Append(@, Normal(T, "ReqT", s, 0))]
        ELSE [w1 EXCEPT !.veh = Append(@, NewVehicle(typ, EnergyMax, "depot")),
                        !.depot.in_service = Append(@, Len(w.veh) + 1),
                        !.mis[s].v = Len(w.veh) + 1,
                        !.mis[s].pc = "requested",
                        !.evs = Append(@, Normal(T, "ReqT", s, 0))]

\* VehicleAbstract.stop_charging for the vehicle of schedule s
stop_charging(w, s, T) ==
    LET h == w.veh[w.mis[s].v].handler
    IN  IF h # 0 /\ w.cps[h].fc # "done"
        THEN [w EXCEPT !.mis[s].pc = "wait_stop",
                       !.mis[s].wc = h,
                       !.evs = Append(@, Urgent(T, "FcIntr", h, 0))]
        ELSE [w EXCEPT !.evs = Append(@, Normal(T, "StopEnd", s, 0))]

\* DepotWithCharging.return_vehicle
return_vehicle(w, s, T) ==
    LET v == w.mis[s].v
    IN  [w EXCEPT !.depot.in_service = Without(@, v),
                  !.depot.out_of_service = Append(@, v),
                  !.depot.charging = Append(@, v),
                  !.mis[s].pc = "done",
                  !.veh[v].returned = T,
                  !.veh[v].cyc = Len(w.chg) + 1,
                  !.veh[v].cycle = "returned",
                  !.chg = Append(@, [v |-> v, pc |-> "dead_time_before",
                                     t0 |-> T, cp |-> 0]),
                  !.evs = Append(@, Urgent(T, "ChgInit", Len(w.chg) + 1, 0))]

\* the vehicle types a schedule may ask for: the types are alike, so the
\* first vehicle of the fleet is of type "a"
RequestedTypes == IF veh = <<>> THEN {"a"} ELSE VehicleTypes

\* the ranges a schedule may ask for: request_vehicle reads the range only
\* when it looks for a vehicle to interrupt
RequiredRanges ==
    IF cfg.interrupt_charging /\ depot.charging # <<>>
    THEN {1, EnergyMax} ELSE {1}

\* the schedule's departure time has come: Dispatcher.run_schedule starts
\* request_vehicle
Depart ==
    /\ Due("Depart")
    /\ \E typ \in RequestedTypes, required_range \in RequiredRanges :
          Commit(request_vehicle(World, Head(queue).id, typ,
                                 required_range, Head(queue).t))

\* stop_charging starts
StopInit ==
    /\ Due("StopInit")
    /\ Commit(stop_charging(World, Head(queue).id, Head(queue).t))

\* stop_charging has ended: request_vehicle puts the vehicle in service and
\* yields its timeout of 0
StopEnd ==
    /\ Due("StopEnd")
    /\ LET s == Head(queue).id
       IN  Commit([World EXCEPT
                     !.depot.in_service = Append(@, mis[s].v),
                     !.mis[s].pc = "requested",
                     !.evs = <<Normal(Head(queue).t, "ReqT", s, 0)>>])

\* request_vehicle returns the vehicle
ReqT ==
    /\ Due("ReqT")
    /\ LET e == Head(queue)
       IN  Commit([World EXCEPT !.evs = <<Normal(e.t, "ReqEnd", e.id, 0)>>])

\* run_schedule resumes with the vehicle: Driver.drive_schedule starts and
\* yields its timeout
ReqEnd ==
    /\ Due("ReqEnd")
    /\ LET e == Head(queue)
       IN  Commit([World EXCEPT
                     !.mis[e.id].pc = "leg",
                     !.mis[e.id].leg = 1,
                     !.evs = <<Normal(e.t, "LegStart", e.id, 0)>>])

\* VehicleAbstract.drive_leg up to the end of the segment: the vehicle is
\* on the segment and driving, the traction model loads the storage
LegStart ==
    /\ Due("LegStart")
    /\ LET s == Head(queue).id
           T == Head(queue).t
           i == mis[s].v
           w1 == ApplyUpdate(World, i,
                     driving_state_change([veh[i] EXCEPT !.loc = "road"],
                                          TRUE, T), T)
           w2 == IF w1.err # "" THEN w1
                 ELSE ApplyUpdate(w1, i,
                          load_change(w1.veh[i], DriveLoad, T), T)
       IN  Commit(IF w2.err # "" THEN w2
                  ELSE [w2 EXCEPT
                          !.veh[i].cycle = "out",
                          !.evs = Append(@,
                              Normal(T + DriveTime, "Arrive", s, 0))])

\* the segment is over: the traction load ends, the vehicle stands at the
\* leg's destination and the pause begins with _interface_controller
Arrive ==
    /\ Due("Arrive")
    /\ \E pause \in PauseTimes :
         LET s == Head(queue).id
             T == Head(queue).t
             i == mis[s].v
             dest == IF mis[s].leg = 1 THEN "stop" ELSE "depot"
             delay == T - (cfg.dep[s] + DriveTime)
             w1 == ApplyUpdate(World, i, load_change(veh[i], 0, T), T)
             w2 == IF w1.err # "" THEN w1
                   ELSE ApplyUpdate(w1, i,
                            driving_state_change(
                                [w1.veh[i] EXCEPT !.loc = dest], FALSE, T), T)
             c == Len(cps) + 1
         IN  Commit(IF w2.err # "" THEN w2
                    ELSE IF mis[s].leg = 1
                    THEN [w2 EXCEPT
                            !.mis[s].pc = "pause",
                            !.cps = Append(@,
                                NewCp(i, "stop", "road", pause - delay,
                                      cfg.opp, "mis", s)),
                            !.evs = Append(@, Urgent(T, "CpInit", c, 0))]
                    ELSE [w2 EXCEPT
                            !.mis[s].pc = "pull_in",
                            !.evs = Append(@, Normal(T, "PullIn", s, 0))])

\* the schedule is over at the depot: run_schedule returns the vehicle
PullIn ==
    /\ Due("PullIn")
    /\ Commit(return_vehicle(World, Head(queue).id, Head(queue).t))

\* DepotWithCharging._charge starts: yield env.timeout(dead_time_before)
ChgInit ==
    /\ Due("ChgInit")
    /\ LET e == Head(queue)
       IN  Commit([World EXCEPT
                     !.evs = <<Normal(e.t + cfg.dead_time_before,
                                      "ChgT1", e.id, 0)>>])

\* the dead time before is over: VehicleAbstract.charge_full starts a
\* _charging_process if there is a facility where the vehicle is now
ChgT1 ==
    /\ Due("ChgT1")
    /\ LET d == Head(queue).id
           T == Head(queue).t
           i == chg[d].v
           c == Len(cps) + 1
       IN  Commit(IF select_interface(veh[i].loc) # 0
                  THEN [World EXCEPT
                          !.chg[d].pc = "charge_full",
                          !.chg[d].cp = c,
                          !.cps = Append(@,
                              NewCp(i, veh[i].loc, "none", 0,
                                    ChargeFullParams, "chg", d)),
                          !.evs = <<Urgent(T, "CpInit", c, 0)>>]
                  ELSE [World EXCEPT
                          !.chg[d].pc = "charge_full",
                          !.evs = <<Normal(T, "CfEnd", d, 0)>>])

\* a _charging_process has ended: the process that waits for it resumes,
\* charge_full of the depot or the pause of the schedule's leg
CpEnd ==
    /\ Due("CpEnd")
    /\ LET c == Head(queue).id
           T == Head(queue).t
           cp == cps[c]
       IN  Commit(IF cp.ok = "chg"
                  THEN [World EXCEPT
                          !.evs = <<Normal(T, "CfEnd", cp.oid, 0)>>]
                  ELSE IF cp.ok = "mis"
                  THEN [World EXCEPT
                          !.mis[cp.oid].pc = "leg",
                          !.mis[cp.oid].leg = 2,
                          !.evs = <<Normal(T, "LegStart", cp.oid, 0)>>]
                  ELSE [World EXCEPT !.veh[cp.v].loc = "road"])

\* charge_full has ended: _charge yields env.timeout(dead_time_after)
CfEnd ==
    /\ Due("CfEnd")
    /\ LET e == Head(queue)
       IN  Commit([World EXCEPT
                     !.chg[e.id].pc = "dead_time_after",
                     !.evs = <<Normal(e.t + cfg.dead_time_after,
                                      "ChgT2", e.id, 0)>>])

\* the dead time after is over: a vehicle still in _vehicles_charging moves
\* to _vehicles_ready
ChgT2 ==
    /\ Due("ChgT2")
    /\ LET d == Head(queue).id
           i == chg[d].v
       IN  Commit(IF In(depot.charging, i)
                  THEN [World EXCEPT
                          !.chg[d].pc = "done",
                          !.depot.charging = Without(@, i),
                          !.depot.ready = Append(@, i),
                          !.veh[i].cycle = "ready",
                          !.veh[i].tready = Head(queue).t,
                          !.veh[i].readied = d]
                  ELSE [World EXCEPT !.chg[d].pc = "done"])

\* the AllOf condition of stop_charging is handled: stop_charging ends
StopAll ==
    /\ Due("StopAll")
    /\ LET e == Head(queue)
       IN  Commit([World EXCEPT !.evs = <<Normal(e.t, "StopEnd", e.id, 0)>>])

\* _finish_charging has ended: _charging_process resumes and ends, and the
\* AllOf condition of a stop_charging that waits for the handler succeeds
FcEnd ==
    /\ Due("FcEnd")
    /\ LET c == Head(queue).id
           T == Head(queue).t
           w1 == IF cps[c].pc = "wait_fc"
                 THEN cp_finish(World, c, T)
                 ELSE World
           waiting == {s \in DOMAIN mis :
                          mis[s].pc = "wait_stop" /\ mis[s].wc = c}
       IN  Commit([w1 EXCEPT
                     !.mis = [s \in DOMAIN mis |->
                                IF s \in waiting
                                THEN [mis[s] EXCEPT !.pc = "stopped"]
                                ELSE mis[s]],
                     !.evs = @ \o
                         [j \in 1..Cardinality(waiting) |->
                            Normal(T, "StopAll",
                                   CHOOSE s \in waiting :
                                       Cardinality({u \in waiting : u < s})
                                           = j - 1, 0)]])

----------------------------------------------------------------------------
(* Components examined on their own, and the state they have while a       *)
(* simulation runs.                                                         *)

\* Port objects at hand
NumPorts == 3
\* largest flow of a port, in units of energy_ref
MaxPortFlow == 2

PortIds == 1..NumPorts
PortFlows == (0 - MaxPortFlow)..MaxPortFlow
Media == {"electricity", "diesel"}

NoTimeInfo == <<>>
NoGen == <<>>
NoDrive == <<>>

NoPorts ==
    [flow |-> <<>>, medium |-> <<>>, in_ports |-> <<>>, out |-> 0,
     err |-> "", notified |-> FALSE]

\* no simulation runs
NoRun ==
    /\ now = 0 /\ queue = <<>> /\ cfg = <<>> /\ veh = <<>>
    /\ items = [f \in Facilities |-> {}]
    /\ get_queue = [f \in Facilities |-> <<>>]
    /\ cps = <<>> /\ chg = <<>> /\ mis = <<>>
    /\ depot = [in_service |-> <<>>, out_of_service |-> <<>>,
                charging |-> <<>>, ready |-> <<>>]
    /\ err = ""
    /\ hist = [changes |-> 0]

\* EnergyAbstract.__add__ and __radd__: sum() starts from the integer 0, a
\* summand equal to 0 is replaced by a zero of the left operand's medium,
\* any other summand must have the left operand's medium
flow_add(acc, x) ==
    IF acc.medium = "ValueError" THEN acc
    ELSE IF acc.medium = "int" THEN x
    ELSE IF x.val = 0 THEN acc
    ELSE IF acc.medium # x.medium THEN [val |-> 0, medium |-> "ValueError"]
    ELSE [val |-> acc.val + x.val, medium |-> acc.medium]

\* sum([port.flow for port in self.in_ports]) over the first k input ports
RECURSIVE flow_sum(_, _)
flow_sum(pt, k) ==
    IF k = 0 THEN [val |-> 0, medium |-> "int"]
    ELSE flow_add(flow_sum(pt, k - 1),
                  [val |-> pt.flow[pt.in_ports[k]],
                   medium |-> pt.medium[pt.in_ports[k]]])

\* a MultiPort._update that leaves the last input port out of the sum
multiport_update_without_last(pt) ==
    LET n == Len(pt.in_ports)
        sum == flow_sum(pt, IF n > 1 THEN n - 1 ELSE n)
    IN  IF sum.medium = "ValueError" THEN [pt EXCEPT !.err = "ValueError"]
        ELSE [pt EXCEPT !.out = sum.val]

\* MultiPort._update: out_port.flow := the sum (Port.flow stores a value that
\* differs from the present one; equality compares energy_ref)
multiport_update(pt) ==
    LET sum == flow_sum(pt, Len(pt.in_ports))
    IN  IF sum.medium = "ValueError" THEN [pt EXCEPT !.err = "ValueError"]
        ELSE [pt EXCEPT !.out = sum.val]

\* Port.flow := value of port p: stored and notified to the subscribers only
\* if it differs; the MultiPort is subscribed to its input ports
port_flow_set(pt, p, value) ==
    IF pt.flow[p] = value THEN [pt EXCEPT !.notified = FALSE]
    ELSE LET stored == [pt EXCEPT !.flow[p] = value]
         IN  IF p \in Range(pt.in_ports)
             THEN [multiport_update(stored) EXCEPT !.notified = TRUE]
             ELSE [stored EXCEPT !.notified = FALSE]

\* MultiPort.add_port
add_port(pt, p) ==
    [pt EXCEPT !.in_ports = Append(@, p), !.notified = FALSE]

\* MultiPort.remove_port
remove_port(pt, p) ==
    [pt EXCEPT !.in_ports = SelectSeq(@, LAMBDA q : q # p),
               !.notified = FALSE]

\* lists of distinct ports
PortLists ==
    {l \in UNION {[1..n -> PortIds] : n \in 0..NumPorts} :
        \A a, b \in DOMAIN l : a # b => l[a] # l[b]}

\* MultiPort(medium, list_of_in_ports) over ports of its medium
InitMultiPort ==
    /\ NoRun /\ tinfo = NoTimeInfo /\ gen = NoGen /\ drv = NoDrive
    /\ \E m \in Media, fl \in [PortIds -> PortFlows], l \in PortLists :
          ports = multiport_update(
                      [flow |-> fl, medium |-> [p \in PortIds |-> m],
                       in_ports |-> l, out |-> 0, err |-> "",
                       notified |-> FALSE])

\* some device sets the flow of one of the ports
SetFlow ==
    /\ ports.err = ""
    /\ \E p \in PortIds, value \in PortFlows :
          ports' = port_flow_set(ports, p, value)
    /\ UNCHANGED <<run, tinfo, gen, drv>>

AddPort ==
    /\ ports.err = ""
    /\ \E p \in PortIds \ Range(ports.in_ports) : ports' = add_port(ports, p)
    /\ UNCHANGED <<run, tinfo, gen, drv>>

RemovePort ==
    /\ ports.err = ""
    /\ \E p \in Range(ports.in_ports) : ports' = remove_port(ports, p)
    /\ UNCHANGED <<run, tinfo, gen, drv>>

NextMultiPort == SetFlow \/ AddPort \/ RemovePort

SpecMultiPort == InitMultiPort /\ [][NextMultiPort]_vars

----------------------------------------------------------------------------
(* TimeInfo: a weekday and the seconds since midnight.                     *)

\* longest duration added to a TimeInfo, in days
MaxDays == 8

SecOfDay == 86400
DaysOfWeek == 7
SecOfWeek == SecOfDay * DaysOfWeek

\* TimeInfo.weekday and TimeInfo.weekdayInv
DayNames ==
    <<"Monday", "Tuesday", "Wednesday", "Thursday", "Friday", "Saturday",
      "Sunday">>
weekday(day) == (CHOOSE j \in 1..DaysOfWeek : DayNames[j] = day) - 1
weekdayInv(index) == DayNames[index + 1]

\* times of day and durations the arithmetic is tried on
TimesOfDay == {0, 1, SecOfDay \div 2, SecOfDay - 1}
TimeInfos == [day : Range(DayNames), time : TimesOfDay]
Durations == {d * SecOfDay + s : d \in 0..MaxDays, s \in TimesOfDay}

\* TimeInfo.__lt__
TimeInfo_lt(self, other) ==
    IF self.day = other.day THEN self.time < other.time
    ELSE weekday(self.day) < weekday(other.day)

\* TimeInfo.getSeconds
getSeconds(self) == weekday(self.day) * SecOfDay + self.time

\* TimeInfo.addSeconds
addSeconds(self, seconds) ==
    LET offsetDays == (self.time + seconds) \div SecOfDay
        newTime == (self.time + seconds) % SecOfDay
    IN  [day |-> weekdayInv((weekday(self.day) + offsetDays) % DaysOfWeek),
         time |-> newTime]

\* TimeInfo.__add__ with a number: addSeconds on a copy
TimeInfo_add(self, other) == addSeconds(self, other)

\* a TimeInfo.__sub__ that never adds the week
TimeInfo_sub_without_wrap(self, other) ==
    getSeconds(self) - getSeconds(other)

\* TimeInfo.__sub__
TimeInfo_sub(self, other) ==
    IF TimeInfo_lt(self, other)
    THEN (SecOfWeek + getSeconds(self)) - getSeconds(other)
    ELSE getSeconds(self) - getSeconds(other)

\* TimeInfo.subSeconds: a negative number of seconds is raised by days (the
\* local secOfWeek is 86400) until it is not negative
subSeconds(self, seconds) ==
    LET left == getSeconds(self) - seconds
        wrapped == IF left < 0 THEN left % SecOfDay ELSE left
    IN  [day |-> weekdayInv(wrapped \div SecOfDay),
         time |-> wrapped % SecOfDay]

\* a timestamp t and a duration dt
InitTimeInfo ==
    /\ NoRun /\ ports = NoPorts /\ gen = NoGen /\ drv = NoDrive
    /\ tinfo \in [t : TimeInfos, dt : Durations, sum : {<<>>}, diff : {-1},
                  back : {<<>>}, again : {<<>>}]

\* sum := t + dt
TiAdd ==
    /\ tinfo.sum = <<>>
    /\ tinfo' = [tinfo EXCEPT !.sum = TimeInfo_add(tinfo.t, tinfo.dt)]
    /\ UNCHANGED <<run, ports, gen, drv>>

\* diff := sum - t
TiSub ==
    /\ tinfo.sum # <<>> /\ tinfo.diff = -1
    /\ tinfo' = [tinfo EXCEPT !.diff = TimeInfo_sub(tinfo.sum, tinfo.t)]
    /\ UNCHANGED <<run, ports, gen, drv>>

\* back := a copy of t; back.subSeconds(dt)
TiSubSeconds ==
    /\ tinfo.back = <<>>
    /\ tinfo' = [tinfo EXCEPT !.back = subSeconds(tinfo.t, tinfo.dt)]
    /\ UNCHANGED <<run, ports, gen, drv>>

\* again := a copy of back; again.addSeconds(dt)
TiAddSeconds ==
    /\ tinfo.back # <<>> /\ tinfo.again = <<>>
    /\ tinfo' = [tinfo EXCEPT !.again = addSeconds(tinfo.back, tinfo.dt)]
    /\ UNCHANGED <<run, ports, gen, drv>>

NextTimeInfo == TiAdd \/ TiSub \/ TiSubSeconds \/ TiAddSeconds

SpecTimeInfo == InitTimeInfo /\ [][NextTimeInfo]_vars

----------------------------------------------------------------------------
(* The schedule generator.  A trip has one leg of one segment; energies    *)
(* are kept in kW s (3600 to the kWh), so that all the arithmetic of the   *)
(* generator is exact.                                                      *)

\* passenger trips in the timetable
NumTrips == 2

Min(a, b) == IF a <= b THEN a ELSE b
\* ceil(a / b) for b > 0
Ceil(a, b) == (a + b - 1) \div b

Stops == {"X", "Y"}
Depot == "D"
Lines == {"L1", "L2"}
TripVehicleTypes == {"EN", "GN"}

\* GridSegment.distance of the shortest segment between two grid points, km
Distance(origin, destination) ==
    IF origin = destination THEN 0
    ELSE IF Depot \in {origin, destination} THEN 5 ELSE 10

\* the departures of the timetable, seconds of the Monday: 00:05, 08:30,
\* 09:15 and 09:30
TimetableDepartures == {300, 30600, 33300, 34200}
\* duration and distance of a passenger trip
TripDuration == 1800
TripDistance == 10

\* TripNode, LegNode and SegmentNode of a trip
Trip(ID, type, vt, line, o, d, dep, driving, dist) ==
    [ID |-> ID, trip_type |-> type, vehicle_type |-> vt, line |-> line,
     origin |-> o, destination |-> d, departure |-> dep,
     duration_driving |-> driving, pause |-> 0, distance |-> dist,
     charge |-> FALSE, delay |-> 0]

\* LegNode.arrival
arrival(trip) == TimeInfo_add(trip.departure, trip.duration_driving)
\* TripNode.duration: the pause included
duration(trip) == trip.duration_driving + trip.pause

\* a delay that counts after every trip whatever the mode is
delay_of_every_trip(trip, params) ==
    IF params.add_delays THEN Max(trip.delay - params.delay_threshold, 0)
    ELSE 0

\* the delay that counts for a trip: add_delay_here and the slack of lines
\* 220-245, 530-556 and 771-794 (delayed_trip_ids None is the empty set)
counted_delay(trip, params) ==
    LET add_delay_here ==
            /\ params.add_delays
            /\ \/ trip.ID \in params.delayed_trip_ids
               \/ params.delay_mode = "all"
               \/ params.delay_mode = "charging_only" /\ trip.charge
    IN  IF add_delay_here
        THEN Max(trip.delay - params.delay_threshold, 0)
        ELSE 0

\* _capacity over the first k trips of a schedule node: the capacity at the
\* end and the minimum met
RECURSIVE capacity_upto(_, _, _)
capacity_upto(node, k, params) ==
    IF k = 0
    THEN [capacity |-> params.capacity, capacity_min |-> params.capacity]
    ELSE LET before == capacity_upto(node, k - 1, params)
             trip == node[k]
             delay == counted_delay(trip, params)
             time_driving == duration(trip) + delay - trip.pause
             time_pausing == Max(trip.pause - delay, 0)
             cons_driving ==
                 trip.distance * params.traction_consumption * SecPerHour
                 + time_driving * params.aux_power_driving
             before_pause == before.capacity - cons_driving
             cons_pausing == time_pausing * params.aux_power_pausing
             max_energy_charged ==
                 IF trip.charge /\ time_pausing > params.dead_time
                 THEN (time_pausing - params.dead_time) * params.charge_power
                 ELSE 0
             after_pause ==
                 Min(params.capacity,
                     before_pause - cons_pausing + max_energy_charged)
         IN  [capacity |-> after_pause,
              capacity_min |->
                  Min(Min(before.capacity_min, before_pause), after_pause)]

\* a capacity trace that never leaves the nominal capacity
capacity_always_full(node, params) ==
    [capacity |-> params.capacity, capacity_min |-> params.capacity]

\* _capacity
capacity(node, params) == capacity_upto(node, Len(node), params)

RECURSIVE node_distance(_)
\* Node.distance of a schedule node
node_distance(node) ==
    IF node = <<>> THEN 0
    ELSE Head(node).distance + node_distance(Tail(node))

\* _charge_duration (reduce_charge_time is 0)
charge_duration(node, params) ==
    Ceil(params.capacity - capacity(node, params).capacity,
         params.charge_power - params.aux_power_pausing)
    + params.dead_time

\* _charging_possible with a list of charging point names
charging_possible(location, params) ==
    location \in params.charging_point_names

\* the duration of a deadhead trip, rounded up to full minutes
deadhead_duration(distance, params) ==
    Ceil(distance * 60, params.default_deadhead_trip_velocity) * 60

\* the pause before a deadhead trip that ends a schedule, charging time and
\* delay
pause_before_deadhead(node, params) ==
    LET k == Len(node)
        charging == charging_possible(node[k].destination, params)
        zeroed == [node EXCEPT ![k].pause = 0]
        pause == IF charging
                 THEN Ceil(charge_duration(zeroed, params), 60) * 60
                 ELSE 0
        preceding == [node[k] EXCEPT !.charge = @ \/ charging]
    IN  pause + counted_delay(preceding, params)

\* _add_deadhead_trip(schedule_node, line, connecting_grid_point, 'start')
add_deadhead_trip_start(node, line, point, ID, params) ==
    LET dist == Distance(point, node[1].origin)
        dur == deadhead_duration(dist, params)
        trip == Trip(ID, "empty", node[1].vehicle_type, line, point,
                     node[1].origin, node[1].departure, dur, dist)
        charging == charging_possible(node[1].origin, params)
        pause == IF charging
                 THEN Ceil(charge_duration(
                               <<[trip EXCEPT !.charge = TRUE]>>, params),
                           60) * 60
                 ELSE 0
    IN  <<[trip EXCEPT !.charge = charging, !.pause = pause,
                       !.departure = subSeconds(@, dur + pause)]>> \o node

\* _add_deadhead_trip(schedule_node, line, connecting_grid_point, 'end')
add_deadhead_trip_end(node, line, point, ID, params) ==
    LET k == Len(node)
        dist == Distance(node[k].destination, point)
        dur == deadhead_duration(dist, params)
        charging == charging_possible(node[k].destination, params)
        pause == pause_before_deadhead(node, params)
        trip == Trip(ID, "empty", node[k].vehicle_type, line,
                     node[k].destination, point,
                     addSeconds(arrival(node[k]), pause), dur, dist)
    IN  Append([node EXCEPT ![k].pause = pause,
                            ![k].charge = @ \/ charging], trip)

\* TimeInfo.__ge__ (total_ordering: not __lt__)
TimeInfo_ge(self, other) == ~TimeInfo_lt(self, other)

\* _find_next_trip: the index in the departure-sorted list of the first trip
\* that matches, 0 if there is none
find_next_trip(trips, location, departure_time, vehicle_type, line) ==
    LET matching ==
            {j \in 1..Len(trips) :
                /\ TimeInfo_ge(trips[j].departure, departure_time)
                /\ trips[j].origin = location
                /\ trips[j].vehicle_type = vehicle_type
                /\ (line = "all" \/ trips[j].line = line)}
    IN  IF matching = {} THEN 0
        ELSE CHOOSE j \in matching : \A i \in matching : j <= i

\* a count that takes every trip for a passenger trip
count_trips(node) == Len(node)

\* a count that takes pull-out and pull-in trips for passenger trips
count_passenger_trips_and_empty(node) == Len(node)

\* _count_passenger_trips
count_passenger_trips(node) ==
    Cardinality({j \in 1..Len(node) : node[j].trip_type = "passenger"})

\* sorted(items, key): stable, by TimeInfo.__lt__ on the keys
RECURSIVE sorted(_, _)
sorted(list, keys) ==
    IF list = <<>> THEN <<>>
    ELSE LET rest == sorted(Tail(list), Tail(keys))
             restkeys == sorted(Tail(keys), Tail(keys))
             ahead == {j \in 1..Len(rest) :
                         TimeInfo_lt(restkeys[j], Head(keys))}
             n == Cardinality(ahead)
         IN  SubSeq(rest, 1, n) \o <<Head(list)>>
             \o SubSeq(rest, n + 1, Len(rest))

\* _sort_by_departure
sort_by_departure(trips) ==
    sorted(trips, [j \in 1..Len(trips) |-> trips[j].departure])

\* the index of the last and of the first passenger trip of a schedule node
last_passenger(node) ==
    CHOOSE j \in 1..Len(node) :
        /\ node[j].trip_type = "passenger"
        /\ \A i \in (j + 1)..Len(node) : node[i].trip_type # "passenger"
first_passenger(node) ==
    CHOOSE j \in 1..Len(node) :
        /\ node[j].trip_type = "passenger"
        /\ \A i \in 1..(j - 1) : node[i].trip_type # "passenger"

\* _last_arrival_time and _first_departure_time
last_arrival_time(schedule) ==
    arrival(schedule.node[last_passenger(schedule.node)])
first_departure_time(schedule) ==
    schedule.node[first_passenger(schedule.node)].departure

\* a concatenation that keeps the deadhead trips at the end of schedule 1
trailing_deadheads_kept(node) == node

\* lines 935-941: the deadhead trips at the end of schedule 1 are removed
trailing_deadheads_removed(node) == SubSeq(node, 1, last_passenger(node))

\* a concatenation that keeps the deadhead trips at the beginning of
\* schedule 2
leading_deadheads_kept(node) == node

\* lines 942-948: the deadhead trips at the beginning of schedule 2 are
\* removed
leading_deadheads_removed(node) ==
    SubSeq(node, first_passenger(node), Len(node))

\* TimeInfo.__gt__ (total_ordering: neither __lt__ nor __eq__)
TimeInfo_gt(self, other) == ~TimeInfo_lt(self, other) /\ self # other

\* _concatenate_schedules: whether a joined schedule is returned, its schedule
\* node, and the next id of a deadhead trip
concatenate_schedules(schedule1, schedule2, next_id, params) ==
    LET node1 == schedule1.node
        node2 == schedule2.node
        last == node1[last_passenger(node1)]
        first == node2[first_passenger(node2)]
        charge_time == IF last.charge THEN last.pause ELSE 0
        create_deadhead == last.destination # first.origin
        time_available ==
            getSeconds(first.departure) - getSeconds(arrival(last))
            - charge_time
        copy1 == trailing_deadheads_removed(node1)
        copy2 == leading_deadheads_removed(node2)
        none == [ok |-> FALSE, node |-> <<>>, next_id |-> next_id]
        with_deadhead ==
            add_deadhead_trip_end(copy1, copy2[1].line, first.origin,
                                  next_id, params)
        deadhead == with_deadhead[Len(with_deadhead)]
        min_departure == addSeconds(arrival(deadhead), deadhead.pause)
        pause == TimeInfo_sub(copy2[1].departure, deadhead.departure)
                 - duration(deadhead)
    IN  IF schedule1.vehicle_type # schedule2.vehicle_type THEN none
        ELSE IF ~params.mix_lines_deadheading /\ last.line # first.line
        THEN none
        ELSE IF ~params.deadheading /\ create_deadhead THEN none
        ELSE IF \/ time_available < 0
                \/ time_available > params.max_deadheading_duration
        THEN none
        ELSE IF create_deadhead
        THEN IF TimeInfo_gt(min_departure, copy2[1].departure)
             THEN [none EXCEPT !.next_id = next_id + 1]
             ELSE [ok |-> TRUE,
                   node |-> [with_deadhead EXCEPT
                                ![Len(with_deadhead)].pause = pause]
                            \o copy2,
                   next_id |-> next_id + 1]
        ELSE [ok |-> TRUE,
              node |-> [copy1 EXCEPT ![Len(copy1)].pause =
                           getSeconds(first.departure)
                           - getSeconds(arrival(last))]
                       \o copy2,
              next_id |-> next_id]

\* a generator without the static-range constraint
range_never_exceeded(node, params) == FALSE

\* lines 179-181, 350-352 and 452-456: the static-range constraint is
\* enabled and the distance of the schedule exceeds the static range
range_exceeded(node, params) ==
    params.use_static_range /\ node_distance(node) > params.static_range

AllParamSets ==
    [capacity : {20 * SecPerHour, 30 * SecPerHour, 50 * SecPerHour},
     static_range : {25, 45},
     use_static_range : BOOLEAN,
     traction_consumption : {1},
     aux_power_driving : {1},
     aux_power_pausing : {1},
     charge_power : {10},
     dead_time : {120},
     charging_point_names : {{}, {"X"}},
     min_pause_duration : {240},
     max_pause_duration : {600, 2700},
     max_deadheading_duration : {1800},
     default_deadhead_trip_velocity : {30},
     deadheading : BOOLEAN,
     mix_lines_at_stop : {FALSE},
     mix_lines_deadheading : BOOLEAN,
     add_delays : {FALSE},
     delay_mode : {"all"},
     delayed_trip_ids : {{}},
     delay_threshold : {0}]

\* the parameter sets of the generator: a static range is given once where
\* the static-range constraint is disabled
ParamSets ==
    {p \in AllParamSets : p.use_static_range \/ p.static_range = 25}

\* the passenger trip with the ID k of a timetable
PassengerTrips(k) ==
    {Trip(k, "passenger", vt, line, o, d, [day |-> "Monday", time |-> dep],
          TripDuration, TripDistance) :
        vt \in (IF k = 1 THEN {"EN"} ELSE TripVehicleTypes),
        line \in (IF k = 1 THEN {"L1"} ELSE Lines),
        o \in Stops, d \in Stops, dep \in TimetableDepartures} 

Timetables ==
    {tt \in [1..NumTrips -> UNION {PassengerTrips(k) : k \in 1..NumTrips}] :
        \A k \in 1..NumTrips :
            tt[k] \in PassengerTrips(k) /\ tt[k].origin # tt[k].destination}

\* a Schedule object: key tells the objects apart, merged tells whether the
\* concatenation made it
ScheduleObject(key, ID, node, merged) ==
    [key |-> key, ID |-> ID, vehicle_type |-> node[1].vehicle_type,
     node |-> node, merged |-> merged]

\* generate_schedules_singledepot is called: the timetable is sorted by
\* departure
InitGenerator ==
    /\ NoRun /\ ports = NoPorts /\ tinfo = NoTimeInfo /\ drv = NoDrive
    /\ \E params \in ParamSets, timetable \in Timetables :
          gen = [params |-> params,
                 unprocessed_trips |-> sort_by_departure(timetable),
                 schedule_node |-> <<>>, line |-> "",
                 schedule_id |-> 0, next_deadhead_trip_id |-> 0,
                 schedule_list |-> <<>>, next_key |-> 1,
                 original_schedules |-> <<>>, new_schedules |-> <<>>,
                 unprocessed_schedules |-> <<>>,
                 connecting_schedules |-> <<>>,
                 schedule1 |-> <<>>, save |-> FALSE,
                 save_schedules |-> <<>>,
                 pc |-> "new", error |-> ""]

\* lines 130-160: a new schedule of the first unprocessed trip and a
\* pull-out trip
GenNew ==
    /\ gen # NoGen /\ gen.pc = "new" /\ gen.unprocessed_trips # <<>>
    /\ LET first == [Head(gen.unprocessed_trips) EXCEPT !.pause = 0]
       IN  gen' = [gen EXCEPT
                     !.line = first.line,
                     !.unprocessed_trips = Tail(@),
                     !.schedule_node =
                         add_deadhead_trip_start(<<first>>, first.line,
                             Depot, gen.next_deadhead_trip_id, gen.params),
                     !.next_deadhead_trip_id = @ + 1,
                     !.pc = "extend"]
    /\ UNCHANGED <<run, ports, tinfo, drv>>

\* lines 162-283: one round of the loop that adds passenger trips
GenExtend ==
    /\ gen # NoGen /\ gen.pc = "extend"
    /\ LET params == gen.params
           node == gen.schedule_node
           k == Len(node)
           current_trip == node[k]
           charging == k # 1 /\ charging_possible(current_trip.destination,
                                                  params)
           marked == [node EXCEPT ![k].charge = @ \/ charging]
           charge_dur == IF charging THEN charge_duration(marked, params)
                         ELSE 0
           min_departure_time ==
               IF k = 1
               THEN addSeconds(arrival(current_trip), current_trip.pause)
               ELSE addSeconds(
                        addSeconds(arrival(current_trip),
                                   counted_delay(marked[k], params)),
                        Max(params.min_pause_duration, charge_dur))
           next_line == IF params.mix_lines_at_stop THEN "all" ELSE gen.line
           next == find_next_trip(gen.unprocessed_trips,
                                  current_trip.destination,
                                  min_departure_time,
                                  node[1].vehicle_type, next_line)
           next_trip == gen.unprocessed_trips[next]
           pause_duration ==
               TimeInfo_sub(next_trip.departure, arrival(current_trip))
       IN  IF \/ range_exceeded(node, params)
              \/ capacity(node, params).capacity_min < 0
           THEN gen' = [gen EXCEPT !.pc = "finish"]
           ELSE IF next = 0
           THEN gen' = [gen EXCEPT !.schedule_node = marked,
                                   !.pc = "finish"]
           ELSE IF pause_duration > params.max_pause_duration
           THEN gen' = [gen EXCEPT !.schedule_node = marked,
                                   !.pc = "finish"]
           ELSE gen' = [gen EXCEPT
                          !.schedule_node =
                              Append([marked EXCEPT
                                         ![k].pause = pause_duration],
                                     [next_trip EXCEPT !.pause = 0]),
                          !.unprocessed_trips =
                              SubSeq(@, 1, next - 1)
                              \o SubSeq(@, next + 1, Len(@))]
    /\ UNCHANGED <<run, ports, tinfo, drv>>

\* lines 286-387: one round of the loop that finishes a schedule with a
\* pull-in trip, or takes its last passenger trip back
GenFinish ==
    /\ gen # NoGen /\ gen.pc = "finish"
    /\ LET params == gen.params
           node == gen.schedule_node
           k == Len(node)
           with_pull_in ==
               add_deadhead_trip_end([node EXCEPT ![k].pause = 0],
                                     node[k].line, Depot,
                                     gen.next_deadhead_trip_id, params)
           remove_last_trip ==
               \/ range_exceeded(with_pull_in, params)
               \/ capacity(with_pull_in, params).capacity_min < 0
       IN  IF count_passenger_trips(node) = 0
           THEN gen' = [gen EXCEPT
                          !.pc = "error",
                          !.error = "Unserviceable trips in timetable"]
           ELSE IF remove_last_trip
           THEN gen' = [gen EXCEPT
                          !.line = node[k].line,
                          !.next_deadhead_trip_id = @ + 1,
                          !.schedule_node = SubSeq(with_pull_in, 1, k - 1),
                          !.unprocessed_trips =
                              sort_by_departure(Append(@, with_pull_in[k]))]
           ELSE gen' = [gen EXCEPT
                          !.line = node[k].line,
                          !.next_deadhead_trip_id = @ + 1,
                          !.schedule_node = <<>>,
                          !.schedule_list =
                              Append(@, ScheduleObject(gen.next_key,
                                                 gen.schedule_id,
                                                 with_pull_in, FALSE)),
                          !.next_key = @ + 1,
                          !.schedule_id = @ + 1,
                          !.pc = "new"]
    /\ UNCHANGED <<run, ports, tinfo, drv>>

\* a removal that leaves the list as it is
without_schedule_kept(list, s) == list

\* lines 463-468: list.remove(s) if s is in the list, i.e. the schedules a
\* list of Schedule objects holds apart from the one with the key of s
without_schedule(list, s) == SelectSeq(list, LAMBDA x : x.key # s.key)

\* lines 487-501: sorted by the departure of the root node and re-numbered
numbered(list) ==
    LET by_departure ==
            sorted(list, [j \in 1..Len(list) |-> list[j].node[1].departure])
    IN  [j \in 1..Len(list) |-> [by_departure[j] EXCEPT !.ID = j - 1]]

\* lines 397-410 and 478-481: all trips are in schedules; the concatenation
\* begins, or the schedules are returned as they are
GenConcatenate ==
    /\ gen # NoGen /\ gen.pc = "new" /\ gen.unprocessed_trips = <<>>
    /\ IF gen.params.deadheading
       THEN gen' = [gen EXCEPT
                      !.original_schedules = gen.schedule_list,
                      !.unprocessed_schedules =
                          sorted(gen.schedule_list,
                                 [j \in 1..Len(gen.schedule_list) |->
                                     last_arrival_time(gen.schedule_list[j])]),
                      !.pc = "schedule1"]
       ELSE gen' = [gen EXCEPT
                      !.save_schedules = numbered(gen.schedule_list),
                      !.pc = "returned"]
    /\ UNCHANGED <<run, ports, tinfo, drv>>

\* lines 411-421 and 474-476: the next schedule to be extended, or the
\* result when there is none
GenSchedule1 ==
    /\ gen # NoGen /\ gen.pc = "schedule1"
    /\ IF gen.unprocessed_schedules = <<>>
       THEN gen' = [gen EXCEPT
                      !.save_schedules =
                          numbered(gen.original_schedules
                                   \o gen.new_schedules),
                      !.pc = "returned"]
       ELSE gen' = [gen EXCEPT
                      !.schedule1 = Head(gen.unprocessed_schedules),
                      !.unprocessed_schedules = Tail(@),
                      !.connecting_schedules =
                          sorted(gen.original_schedules,
                                 [j \in 1..Len(gen.original_schedules) |->
                                     first_departure_time(
                                         gen.original_schedules[j])]),
                      !.save = FALSE,
                      !.pc = "schedule2"]
    /\ UNCHANGED <<run, ports, tinfo, drv>>

\* lines 423-472: schedule1 and the next connecting schedule are joined if
\* they can be and the joined schedule meets the constraints
GenSchedule2 ==
    /\ gen # NoGen /\ gen.pc = "schedule2"
    /\ LET params == gen.params
           schedule1 == gen.schedule1
           schedule2 == Head(gen.connecting_schedules)
           new == concatenate_schedules(schedule1, schedule2,
                                        gen.next_deadhead_trip_id, params)
           concat == /\ new.ok
                     /\ capacity(new.node, params).capacity_min >= 0
                     /\ ~range_exceeded(new.node, params)
       IN  IF gen.connecting_schedules = <<>>
           THEN gen' = [gen EXCEPT
                          !.new_schedules =
                              IF gen.save THEN Append(@, schedule1) ELSE @,
                          !.pc = "schedule1"]
           ELSE IF concat
           THEN gen' = [gen EXCEPT
                          !.connecting_schedules = Tail(@),
                          !.next_deadhead_trip_id = new.next_id,
                          !.save = TRUE,
                          !.original_schedules =
                              without_schedule(
                                  without_schedule(@, schedule1), schedule2),
                          !.unprocessed_schedules =
                              without_schedule(@, schedule2),
                          !.schedule1 =
                              ScheduleObject(gen.next_key, schedule1.ID, new.node,
                                       TRUE),
                          !.next_key = @ + 1]
           ELSE gen' = [gen EXCEPT
                          !.connecting_schedules = Tail(@),
                          !.next_deadhead_trip_id = new.next_id]
    /\ UNCHANGED <<run, ports, tinfo, drv>>

NextGenerator ==
    \/ GenNew \/ GenExtend \/ GenFinish
    \/ GenConcatenate \/ GenSchedule1 \/ GenSchedule2

SpecGenerator == InitGenerator /\ [][NextGenerator]_vars

----------------------------------------------------------------------------
(* The generator on timetables of one line and one vehicle type whose      *)
(* first trip may be delayed, under every way of counting delays.          *)

\* the delay a trip of the timetable may carry, in seconds
TripDelays == {0, 900}

DelayModes == {"all", "charging_only", "selected_only"}

DelayParamSets ==
    [capacity : {50 * SecPerHour},
     static_range : {25},
     use_static_range : {FALSE},
     traction_consumption : {1},
     aux_power_driving : {1},
     aux_power_pausing : {1},
     charge_power : {10},
     dead_time : {120},
     charging_point_names : {{}, {"X"}},
     min_pause_duration : {240},
     max_pause_duration : {2700},
     max_deadheading_duration : {1800},
     default_deadhead_trip_velocity : {30},
     deadheading : {TRUE},
     mix_lines_at_stop : {FALSE},
     mix_lines_deadheading : {FALSE},
     add_delays : BOOLEAN,
     delay_mode : DelayModes,
     delayed_trip_ids : {{}, {1}},
     delay_threshold : {0, 300}]

DelayTimetables ==
    {[tt EXCEPT ![1].delay = d] :
        tt \in {t \in Timetables :
                   \A k \in 1..NumTrips :
                       t[k].vehicle_type = "EN" /\ t[k].line = "L1"},
        d \in TripDelays}

InitDelays ==
    /\ NoRun /\ ports = NoPorts /\ tinfo = NoTimeInfo /\ drv = NoDrive
    /\ \E params \in DelayParamSets, timetable \in DelayTimetables :
          gen = [params |-> params,
                 unprocessed_trips |-> sort_by_departure(timetable),
                 schedule_node |-> <<>>, line |-> "",
                 schedule_id |-> 0, next_deadhead_trip_id |-> 0,
                 schedule_list |-> <<>>, next_key |-> 1,
                 original_schedules |-> <<>>, new_schedules |-> <<>>,
                 unprocessed_schedules |-> <<>>,
                 connecting_schedules |-> <<>>,
                 schedule1 |-> <<>>, save |-> FALSE,
                 save_schedules |-> <<>>,
                 pc |-> "new", error |-> ""]

SpecDelays == InitDelays /\ [][NextGenerator]_vars

----------------------------------------------------------------------------
(* A driver takes a vehicle through the legs of a schedule on a route      *)
(* without charging facilities: Driver.drive_schedule calls drive_leg for  *)
(* each leg, and drive_leg waits in _interface_controller for each segment *)
(* and for the pause of the leg.                                           *)

NumLegs == 2
MaxSegments == 2
SegmentDuration == 600

\* the delays of segments, the pauses of legs, the time of the call of
\* drive_schedule relative to the schedule's departure, in seconds
SegmentDelays == {0, 120}
LegPauses == {60, 300}
CallOffsets == {0 - 60, 0, 60}
\* the departures of schedules: a Monday morning, and a Sunday night from
\* which the legs run into the next week
ScheduleDepartures ==
    {[day |-> "Monday", time |-> 300],
     [day |-> "Sunday", time |-> SecOfDay - 900]}

\* the durations of the first i segments of a leg
RECURSIVE duration_upto(_, _)
duration_upto(leg, i) ==
    IF i = 0 THEN 0
    ELSE duration_upto(leg, i - 1) + leg.segments[i].duration

\* SegmentNode.arrival: the leg's departure and the scheduled durations up
\* to the segment
segment_arrival(leg, i) == TimeInfo_add(leg.departure, duration_upto(leg, i))

\* TimeInfo.__abs__
TimeInfo_abs(self) == self.time + weekday(self.day) * SecOfDay

\* a drive_leg that leaves the delays of the segments out
segment_dur_without_delay(DELAYS, segment) == segment.duration

\* drive_leg: the time a segment takes
segment_dur(DELAYS, segment) ==
    IF DELAYS THEN segment.duration + segment.delay ELSE segment.duration

\* _interface_controller where no facility matches the vehicle: a timeout
\* of max(duration, 0) for each subsystem, all of them awaited
interface_controller(interval_duration) == Max(interval_duration, 0)

\* the legs of a schedule: each departs when the pause of the one before is
\* scheduled to end
LegShapes ==
    [delays : UNION {[1..n -> SegmentDelays] : n \in 1..MaxSegments},
     pause : LegPauses]
RECURSIVE LegNodes(_, _, _)
LegNodes(shapes, k, departure) ==
    IF k > Len(shapes) THEN <<>>
    ELSE LET segments ==
                 [i \in 1..Len(shapes[k].delays) |->
                     [duration |-> SegmentDuration,
                      delay |-> shapes[k].delays[i]]]
             leg == [departure |-> departure, segments |-> segments,
                     pause |-> shapes[k].pause]
             arrival_time == segment_arrival(leg, Len(segments))
         IN  <<leg>> \o LegNodes(shapes, k + 1,
                                 TimeInfo_add(arrival_time, leg.pause))
DrivenSchedules ==
    {LegNodes(shapes, 1, departure) :
        shapes \in [1..NumLegs -> LegShapes],
        departure \in ScheduleDepartures}

\* a vehicle as __init__ leaves it, and a driver about to drive a schedule
InitDrive ==
    /\ NoRun /\ ports = NoPorts /\ tinfo = NoTimeInfo /\ gen = NoGen
    /\ \E legs \in DrivenSchedules, DELAYS \in BOOLEAN,
          offset \in CallOffsets :
          drv = [legs |-> legs, DELAYS |-> DELAYS,
                 now |-> TimeInfo_abs(legs[1].departure) + offset,
                 pc |-> "drive_schedule", leg |-> 0, segment |-> 0,
                 wake |-> 0, delay |-> 0, driving |-> FALSE,
                 ac_request |-> FALSE, time_leg_begin |-> 0,
                 driving_time |-> 0, break_begin |-> 0,
                 operation_time |-> 0, arrivals |-> <<>>, breaks |-> <<>>]

\* Driver.drive_schedule: wait for the schedule's departure, switch on,
\* start drive_leg for the first leg
DriveSchedule ==
    /\ drv # NoDrive /\ drv.pc = "drive_schedule"
    /\ LET timeout == TimeInfo_abs(drv.legs[1].departure) - drv.now
       IN  drv' = [drv EXCEPT !.now = @ + Max(timeout, 0),
                              !.ac_request = TRUE,
                              !.leg = 1, !.pc = "drive_leg"]
    /\ UNCHANGED <<run, ports, tinfo, gen>>

\* drive_leg up to the wait for the first segment
DriveLeg ==
    /\ drv # NoDrive /\ drv.pc = "drive_leg"
    /\ LET leg_node == drv.legs[drv.leg]
           dur == segment_dur(drv.DELAYS, leg_node.segments[1])
       IN  drv' = [drv EXCEPT
                      !.delay = drv.now - TimeInfo_abs(leg_node.departure),
                      !.time_leg_begin = drv.now,
                      !.ac_request = TRUE,
                      !.segment = 1, !.driving = TRUE,
                      !.wake = drv.now + interface_controller(dur),
                      !.pc = "segment"]
    /\ UNCHANGED <<run, ports, tinfo, gen>>

\* drive_leg: a segment that is not the last one of its leg is finished,
\* the next one begins
SegmentFinished ==
    /\ drv # NoDrive /\ drv.pc = "segment"
    /\ drv.segment < Len(drv.legs[drv.leg].segments)
    /\ LET leg_node == drv.legs[drv.leg]
           delay == drv.wake
                    - TimeInfo_abs(segment_arrival(leg_node, drv.segment))
           dur == segment_dur(drv.DELAYS, leg_node.segments[drv.segment + 1])
       IN  drv' = [drv EXCEPT
                      !.now = drv.wake, !.delay = delay,
                      !.arrivals = Append(@, [leg |-> drv.leg,
                                              segment |-> drv.segment,
                                              begin |-> drv.time_leg_begin,
                                              delay |-> delay]),
                      !.segment = @ + 1,
                      !.wake = drv.wake + interface_controller(dur)]
    /\ UNCHANGED <<run, ports, tinfo, gen>>

\* drive_leg: the last segment of the leg is finished, the pause begins,
\* shortened by the delay
LegFinished ==
    /\ drv # NoDrive /\ drv.pc = "segment"
    /\ drv.segment = Len(drv.legs[drv.leg].segments)
    /\ LET leg_node == drv.legs[drv.leg]
           delay == drv.wake
                    - TimeInfo_abs(segment_arrival(leg_node, drv.segment))
           dur == leg_node.pause - delay
       IN  drv' = [drv EXCEPT
                      !.now = drv.wake, !.delay = delay,
                      !.arrivals = Append(@, [leg |-> drv.leg,
                                              segment |-> drv.segment,
                                              begin |-> drv.time_leg_begin,
                                              delay |-> delay]),
                      !.driving_time = drv.wake - drv.time_leg_begin,
                      !.driving = FALSE,
                      !.break_begin = drv.wake,
                      !.wake = drv.wake + interface_controller(dur),
                      !.pc = "pause"]
    /\ UNCHANGED <<run, ports, tinfo, gen>>

\* drive_leg: the pause is over; drive_schedule goes on with the next leg
\* or ends
PauseFinished ==
    /\ drv # NoDrive /\ drv.pc = "pause"
    /\ LET break_time == drv.wake - drv.break_begin
       IN  drv' = [drv EXCEPT
                      !.now = drv.wake,
                      !.operation_time = @ + drv.driving_time + break_time,
                      !.breaks = Append(@, [leg |-> drv.leg,
                                            begin |-> drv.time_leg_begin,
                                            break_time |-> break_time]),
                      !.leg = IF drv.leg < Len(drv.legs) THEN @ + 1 ELSE @,
                      !.pc = IF drv.leg < Len(drv.legs) THEN "drive_leg"
                             ELSE "returned"]
    /\ UNCHANGED <<run, ports, tinfo, gen>>

NextDrive ==
    DriveSchedule \/ DriveLeg \/ SegmentFinished \/ LegFinished
    \/ PauseFinished

SpecDrive == InitDrive /\ [][NextDrive]_vars

----------------------------------------------------------------------------
\* no component is examined on its own
NoneApart ==
    ports = NoPorts /\ tinfo = NoTimeInfo /\ gen = NoGen /\ drv = NoDrive

----------------------------------------------------------------------------
(* A storage with its controller under an arbitrary environment: the load  *)
(* changes, interfaces connect and disconnect, the vehicle starts and      *)
(* stops driving, time passes.                                             *)

InitStorage ==
    /\ now = 0
    /\ queue = <<>>
    /\ cfg \in [eff : {<<1, 1>>, <<1, 2>>}, force : BOOLEAN,
                allow_invalid : BOOLEAN]
    /\ \E e \in 0..EnergyMax :
          veh = <<[NewVehicle("a", e, "depot") EXCEPT !.last_update = 0]>>
    /\ items = [f \in Facilities |-> {}]
    /\ get_queue = [f \in Facilities |-> <<>>]
    /\ cps = <<>> /\ chg = <<>> /\ mis = <<>>
    /\ depot = [in_service |-> <<>>, out_of_service |-> <<>>,
                charging |-> <<>>, ready |-> <<>>]
    /\ err = ""
    /\ hist = [changes |-> 0]
    /\ NoneApart

\* one more change of the environment
Changed(w) == [w EXCEPT !.hist.changes = @ + 1]

\* a second passes in which nothing is due
EnvTick ==
    /\ err = "" /\ now < MaxTime
    /\ IF queue = <<>> THEN TRUE ELSE Head(queue).t > now
    /\ now' = now + 1
    /\ UNCHANGED <<queue, cfg, veh, items, get_queue, cps, chg, mis, depot,
                   err, hist>>
    /\ UNCHANGED apart

\* a device sets the flow of the load port: consumption or recuperation
EnvLoad ==
    /\ err = "" /\ now <= MaxTime /\ hist.changes < MaxChanges
    /\ \E l \in {(-2) * UnitFlow, 0, UnitFlow, 3 * UnitFlow} :
          CommitNow(Changed(ApplyUpdate(World, 1, load_change(veh[1], l, now), now)))

\* ChargingInterface.connect and disconnect of interface 1, as far as the
\* controller hears of them
EnvConnect ==
    /\ err = "" /\ now <= MaxTime /\ hist.changes < MaxChanges
    /\ veh[1].ctrl_conn = 0
    /\ CommitNow(Changed(ApplyUpdate(World, 1,
                             connect_interface(veh[1], 1, now), now)))

EnvDisconnect ==
    /\ err = "" /\ now <= MaxTime /\ hist.changes < MaxChanges
    /\ veh[1].ctrl_conn # 0
    /\ CommitNow(Changed(ApplyUpdate(World, 1, disconnect_interface(veh[1], now), now)))

\* the vehicle starts or stops driving
EnvDriving ==
    /\ err = "" /\ now <= MaxTime /\ hist.changes < MaxChanges
    /\ CommitNow(Changed(ApplyUpdate(World, 1,
            driving_state_change(veh[1], ~veh[1].driving, now), now)))

----------------------------------------------------------------------------
(* The whole simulation: a dispatcher runs NumSchedules schedules from a   *)
(* depot with charging; the stop offers opportunity charging.              *)

\* the parameter sets ChargingScheduleParameterSet admits: charge_full
\* implies queue_for_charging, and without try_charging nothing else is set
OppParams ==
    {par \in [try : BOOLEAN, queue : BOOLEAN, full : BOOLEAN,
              rwf : BOOLEAN, minc : {0, 1}] :
        /\ par.full => par.queue
        /\ ~par.try => (~par.queue /\ ~par.full /\ ~par.rwf)}

\* the charging schedule's entry for the pause at the stop: no attempt, or
\* an attempt that queues and releases the slot when full
StopParams ==
    {NoChargingParams,
     [try |-> TRUE, queue |-> TRUE, full |-> FALSE, rwf |-> TRUE, minc |-> 0]}

\* the departures of the schedules, sorted as Dispatcher sorts them
Departures ==
    {dep \in [1..NumSchedules ->
                 {k * DepartureStep : k \in 0..(MaxDeparture \div DepartureStep)}] :
        /\ dep[1] = 0
        /\ \A s \in 1..(NumSchedules - 1) : dep[s] <= dep[s + 1]}

NoDepot ==
    [in_service |-> <<>>, out_of_service |-> <<>>,
     charging |-> <<>>, ready |-> <<>>]

Init ==
    /\ now = 0
    /\ cfg \in [eff : {<<1, 1>>}, force : {FALSE}, allow_invalid : {TRUE},
                dead_time : {0, 1}, manoeuvre : {0}, dynamic_undock : {FALSE},
                dead_time_before : {0, 1}, dead_time_after : {0, MaxDeadTimeAfter},
                interrupt_charging : BOOLEAN,
                opp : StopParams, dep : Departures]
    /\ queue = [s \in 1..NumSchedules |-> Normal(cfg.dep[s], "Depart", s, 0)]
    /\ veh = <<>>
    /\ items = [f \in Facilities |-> 1..Capacity]
    /\ get_queue = [f \in Facilities |-> <<>>]
    /\ cps = <<>> /\ chg = <<>>
    /\ mis = [s \in 1..NumSchedules |->
                [pc |-> "idle", v |-> 0, typ |-> "a", range |-> 0,
                 from |-> "none", wc |-> 0, leg |-> 0]]
    /\ depot = NoDepot
    /\ err = ""
    /\ hist = [changes |-> 0]
    /\ NoneApart

Next ==
    \/ Depart \/ StopInit \/ StopAll \/ StopEnd \/ ReqT \/ ReqEnd \/ LegStart \/ Arrive
    \/ PullIn \/ ChgInit \/ ChgT1 \/ CfEnd \/ ChgT2
    \/ CpInit \/ RhInit \/ GetOk \/ PutOk \/ RtkInit \/ RtkFire \/ RtkEnd
    \/ RhIntr \/ RhEnd \/ CpT \/ DockInit \/ DockT \/ DockEnd
    \/ FcInit \/ FullOk \/ FcT \/ RfInit \/ UndockInit \/ UndockT
    \/ UndockEnd \/ RfEnd \/ FcIntr \/ FcEnd \/ CtkInit \/ CtkFire \/ CtkEnd
    \/ CpEnd \/ SuInit \/ SuFire

Spec == Init /\ [][Next]_vars

----------------------------------------------------------------------------
(* Opportunity charging at the stop alone: NumVehicles vehicles arrive at  *)
(* the stop, each once, and pause there.                                   *)

\* the arrivals of the vehicles at the stop, the first at 0
Arrivals ==
    {arr \in [1..NumVehicles -> 0..MaxArrival] :
        /\ arr[1] = 0
        /\ \A i \in 1..(NumVehicles - 1) : arr[i] <= arr[i + 1]}

InitCharging ==
    /\ now = 0
    /\ cfg \in [eff : {<<1, 1>>}, force : {FALSE}, allow_invalid : {TRUE},
                dead_time : {0, 1}, manoeuvre : {0, 1},
                dynamic_undock : {FALSE}, next : {"road"},
                opp : OppParams, arr : Arrivals]
    /\ queue = [i \in 1..NumVehicles |->
                  Normal(cfg.arr[i], "StopArrive", i, 0)]
    /\ veh = [i \in 1..NumVehicles |->
                [NewVehicle("a", EnergyMax, "road") EXCEPT !.last_update = 0]]
    /\ items = [f \in Facilities |-> 1..Capacity]
    /\ get_queue = [f \in Facilities |-> <<>>]
    /\ cps = <<>> /\ chg = <<>> /\ mis = <<>>
    /\ depot = NoDepot
    /\ err = ""
    /\ hist = [changes |-> 0]
    /\ NoneApart

\* vehicle i ends its leg at the stop and pauses there: drive_leg starts
\* _interface_controller, which starts _charging_process
StopArrive ==
    /\ Due("StopArrive")
    /\ \E e \in {EnergyMax - 2, EnergyMax - 1}, pause \in PauseTimes :
         LET i == Head(queue).id
             T == Head(queue).t
         IN  Commit([World EXCEPT
                 !.veh[i].cycle = "pause",
                 !.veh[i].energy = e,
                 !.veh[i].last_update = T,
                 !.veh[i].loc = "stop",
                 !.cps = Append(@, NewCp(i, "stop", cfg.next, pause, cfg.opp,
                                         "env", 0)),
                 !.evs = <<Urgent(T, "CpInit", Len(cps) + 1, 0)>>])

NextCharging ==
    \/ StopArrive
    \/ CpInit \/ RhInit \/ GetOk \/ PutOk \/ RtkInit \/ RtkFire \/ RtkEnd
    \/ RhIntr \/ RhEnd \/ CpT \/ DockInit \/ DockT \/ DockEnd
    \/ FcInit \/ FullOk \/ FcT \/ RfInit \/ UndockInit \/ UndockT
    \/ UndockEnd \/ RfEnd \/ FcIntr \/ FcEnd \/ CtkInit \/ CtkFire \/ CtkEnd
    \/ CpEnd \/ SuInit \/ SuFire

SpecCharging == InitCharging /\ [][NextCharging]_vars

----------------------------------------------------------------------------
(* The same pauses at the stop with what follows them varied: the location *)
(* after the pause and the interface type's dynamic_undock.                *)

\* the location after the pause: the road, which has no facility, the
\* depot, whose facility takes the vehicle's other interface, or a location
\* with a facility of the stop's interface type
OnwardLocations == {"road", "depot", "stop"}

InitOnward ==
    /\ now = 0
    /\ cfg \in [eff : {<<1, 1>>}, force : {FALSE}, allow_invalid : {TRUE},
                dead_time : {1}, manoeuvre : {0},
                dynamic_undock : BOOLEAN, next : OnwardLocations,
                opp : {par \in OppParams : par.minc = 0}, arr : Arrivals]
    /\ queue = [i \in 1..NumVehicles |->
                  Normal(cfg.arr[i], "StopArrive", i, 0)]
    /\ veh = [i \in 1..NumVehicles |->
                [NewVehicle("a", EnergyMax, "road") EXCEPT !.last_update = 0]]
    /\ items = [f \in Facilities |-> 1..Capacity]
    /\ get_queue = [f \in Facilities |-> <<>>]
    /\ cps = <<>> /\ chg = <<>> /\ mis = <<>>
    /\ depot = NoDepot
    /\ err = ""
    /\ hist = [changes |-> 0]
    /\ NoneApart

SpecOnward == InitOnward /\ [][NextCharging]_vars

NextStorage ==
    \/ EnvTick \/ EnvLoad \/ EnvConnect \/ EnvDisconnect \/ EnvDriving
    \/ SuInit \/ SuFire

SpecStorage == InitStorage /\ [][NextStorage]_vars

----------------------------------------------------------------------------
(* Vehicles return to the depot and are charged there, and no schedule     *)
(* asks for a vehicle: each return starts a _charge process, whose         *)
(* charge_full runs a charging process without time limit.                 *)

\* vehicles that return to the depot
NumReturned == 2

\* the instants of the returns, the first at 0
Returns ==
    {ret \in [1..NumReturned -> 0..MaxArrival] :
        /\ ret[1] = 0
        /\ \A i \in 1..(NumReturned - 1) : ret[i] <= ret[i + 1]}

\* every vehicle is in service at the depot's location, at the end of its
\* schedule, with any energy from empty to full
InitReturned ==
    /\ now = 0
    /\ cfg \in [eff : {<<1, 1>>}, force : {FALSE}, allow_invalid : {TRUE},
                dead_time : {0, 1}, manoeuvre : {0, 1},
                dynamic_undock : {FALSE},
                dead_time_before : {0, 1},
                dead_time_after : {0, MaxDeadTimeAfter},
                interrupt_charging : {FALSE}, ret : Returns,
                energy : [1..NumReturned -> 0..EnergyMax]]
    /\ queue = [s \in 1..NumReturned |-> Normal(cfg.ret[s], "PullIn", s, 0)]
    /\ veh = [i \in 1..NumReturned |->
                [NewVehicle("a", cfg.energy[i], "depot") EXCEPT
                    !.last_update = cfg.ret[i], !.cycle = "out"]]
    /\ items = [f \in Facilities |-> 1..Capacity]
    /\ get_queue = [f \in Facilities |-> <<>>]
    /\ cps = <<>> /\ chg = <<>>
    /\ mis = [s \in 1..NumReturned |->
                [pc |-> "pull_in", v |-> s, typ |-> "a", range |-> 1,
                 from |-> "new", wc |-> 0, leg |-> 2]]
    /\ depot = [NoDepot EXCEPT !.in_service = [s \in 1..NumReturned |-> s]]
    /\ err = ""
    /\ hist = [changes |-> 0]
    /\ NoneApart

NextReturned ==
    \/ PullIn \/ ChgInit \/ ChgT1 \/ CfEnd \/ ChgT2
    \/ CpInit \/ RhInit \/ GetOk \/ PutOk \/ RhEnd \/ CpT
    \/ DockInit \/ DockT \/ DockEnd
    \/ FcInit \/ FullOk \/ FcT \/ RfInit \/ UndockInit \/ UndockT
    \/ UndockEnd \/ RfEnd \/ FcEnd \/ CpEnd \/ SuInit \/ SuFire

\* Environment.run steps as long as an event is scheduled
SpecReturned == InitReturned /\ [][NextReturned]_vars /\ WF_vars(NextReturned)

----------------------------------------------------------------------------
(* Properties of the storage. *)

\* C2 as stated: after every storage update the energy of every storage
\* lies between 0 and its maximum energy.
C2_EnergyWithinZeroAndMax ==
    \A i \in DOMAIN veh : 0 <= veh[i].energy /\ veh[i].energy <= EnergyMax

\* C2, amended: after every storage update the energy of every storage is
\* at most its maximum energy; it is at least 0 as long as soc_was_valid
\* still holds, and _charge lets it fall below 0 otherwise.
C2_EnergyAtMostMaxAndValidityRecorded ==
    \A i \in DOMAIN veh :
        /\ veh[i].energy <= EnergyMax
        /\ veh[i].was_valid => veh[i].energy >= 0

\* an update has discharged a storage below 0 and recorded it
C2_DischargedBelowZero ==
    /\ veh[1].energy < 0 /\ ~veh[1].was_valid
    /\ veh[1].last_update > 0 /\ veh[1].sflow < 0

\* the delay C10 names, from the update that left storage v
C10_Delay(v) ==
    ((EnergyMax - v.energy) * SecPerHour * cfg.eff[2])
        \div (v.sflow * cfg.eff[1])

\* C10: while a storage below its maximum holds an in-flow f > 0 since its
\* last update, an update of it is scheduled no later than
\* (max - energy) * 3600 / (f * charge_efficiency) seconds after that update
\* and the clock has not passed that instant; and whenever fully_charged
\* fires, it fires exactly that long after the last update before it, with
\* forced periodic updates or without (in a run no error has aborted).
C10_FullyChargedOnTime ==
    /\ [](\A i \in DOMAIN veh :
            (err = "" /\ veh[i].sflow > 0) =>
                /\ veh[i].energy < EnergyMax
                /\ now <= veh[i].last_update + C10_Delay(veh[i])
                /\ \E j \in 1..Len(queue) :
                      /\ queue[j].id = i
                      /\ \/ /\ queue[j].k = "SuFire"
                            /\ queue[j].t
                                 <= veh[i].last_update + C10_Delay(veh[i])
                         \/ /\ queue[j].k = "SuInit"
                            /\ queue[j].t + queue[j].x
                                 <= veh[i].last_update + C10_Delay(veh[i]))
    /\ [][\A i \in DOMAIN veh :
            (i \in DOMAIN veh' /\ veh'[i].fired # veh[i].fired) =>
                /\ veh[i].sflow > 0
                /\ now' = veh[i].last_update + C10_Delay(veh[i])]_vars

\* a storage charged from empty to full in one go, with forced updates on
\* the way, has fired fully_charged
C10_ChargedToFullWithForcedUpdates ==
    /\ cfg.force /\ hist.changes = 1
    /\ veh[1].fired = 1 /\ veh[1].energy = EnergyMax
    /\ veh[1].ctrl_conn # 0 /\ now > UpdateInterval

----------------------------------------------------------------------------
(* Properties of the charging process. *)

\* the charging processes that have been granted a slot of facility f and
\* have not yet released it
Holders(f) ==
    {c \in DOMAIN cps :
        cps[c].f = f /\ cps[c].req = "granted" /\ ~cps[c].released}

\* C1: at all times and for every facility, the vehicles that have been
\* granted a slot and have not yet released it are no more than the
\* facility's capacity.
C1_OccupancyWithinCapacity ==
    \A f \in Facilities : Cardinality(Holders(f)) <= Capacity

----------------------------------------------------------------------------
(* Requests that time out (SpecCharging).                                  *)

\* C4: a request that is not charge-full never waits beyond the deadline of
\* its timekeeper; when it has not been granted by then, it is interrupted
\* at the deadline and from then on it is out of the facility's queue, its
\* charging process has neither docked nor connected the interface, and it
\* holds no slot of the facility
C4_TimedOutRequestWithdrawn ==
    \A c \in DOMAIN cps :
        LET cp == cps[c]
        IN  /\ (~cp.full /\ cp.rh = "wait" /\ cp.rtk >= 0) => now <= cp.rtk
            /\ cp.timedout >= 0 =>
                  /\ ~cp.full
                  /\ cp.timedout = cp.rtk
                  /\ \A j \in 1..Len(get_queue[cp.f]) : get_queue[cp.f][j] # c
                  /\ ~cp.docks /\ ~cp.connected
                  /\ veh[cp.v].conn[cp.i] = "none"
                  /\ c \notin Holders(cp.f)

\* a request has waited in the queue for some time, has been withdrawn at
\* its deadline, and its vehicle has left the stop
C4_WaitedAndLeftUncharged ==
    \E c \in DOMAIN cps :
        /\ cps[c].enq /\ cps[c].timedout > cps[c].t0
        /\ cps[c].req = "cancelled" /\ cps[c].pc = "done"

----------------------------------------------------------------------------
(* Two vehicles arrive at the stop at the same time (SpecCharging): A is   *)
(* the charging process of the first, B that of the second.                *)

\* the facility has capacity 1 and both charging processes have started
C6_Pair ==
    /\ Capacity = 1 /\ Len(cps) >= 2
    /\ cps[1].pc # "init" /\ cps[2].pc # "init"
    /\ cps[1].f = cps[2].f /\ cps[1].t0 = cps[2].t0

\* the dwell of the charging process covers min_charge_duration, docking,
\* undocking and, if it has to queue, the manoeuvre to the slot
C6_DwellCovers(cp, queueing) ==
    cp.dur >= cp.minc + 2 * cfg.dead_time + B2N(queueing) * cfg.manoeuvre

\* A is granted the slot on arrival and connects as soon as it has docked;
\* B waits in the queue and is not granted a slot on arrival
C6_OneConnectsOtherWaits ==
    now > cps[1].t0 =>
        /\ cps[1].tgrant = cps[1].t0
        /\ cps[1].connected => cps[1].tconn = cps[1].t0 + cfg.dead_time
        /\ now > cps[1].t0 + cfg.dead_time => cps[1].connected
        /\ cps[2].enq /\ cps[2].tgrant # cps[2].t0

\* B has left, and A had not released the slot within B's dwell: the
\* request of B was cancelled at its deadline and B was never connected
C6_ShortDwellCancelled ==
    (/\ cps[2].pc = "done"
     /\ (cps[1].trel < 0 \/ cps[1].trel - cps[1].t0 > cps[2].dur))
    => /\ cps[2].req = "cancelled"
       /\ cps[2].timedout >= 0 /\ cps[2].timedout = cps[2].rtk
       /\ ~cps[2].connected

\* C6 as stated: with capacity 1 and two simultaneous arrivals, one
\* connects at once and the other waits in the queue; if the dwell of the
\* waiting one is shorter than the charging time of the first, its request
\* is cancelled at its deadline and it leaves without having connected
C6_ContentionAsStated ==
    C6_Pair => (C6_OneConnectsOtherWaits /\ C6_ShortDwellCancelled)

\* C6, for vehicles that try to charge and queue for it, with dwells that
\* cover the dead times (or charge_full): one connects as soon as it has
\* docked and the other waits in the queue; unless charge_full is set, a
\* waiting vehicle whose dwell ends before the first releases the slot has
\* its request cancelled at its deadline and leaves without having
\* connected
C6_ContentionWhenQueueing ==
    (/\ C6_Pair
     /\ cfg.opp.try /\ cfg.opp.queue
     /\ cfg.opp.full \/ (/\ C6_DwellCovers(cps[1], FALSE)
                         /\ C6_DwellCovers(cps[2], TRUE)))
    => /\ C6_OneConnectsOtherWaits
       /\ ~cfg.opp.full => C6_ShortDwellCancelled

\* the second of two simultaneous arrivals has queued, has been cancelled
\* at its deadline and has left, while the first is connected and still
\* holds the slot
C6_SecondLeftWhileFirstCharges ==
    /\ C6_Pair /\ cfg.opp.try /\ cfg.opp.queue /\ ~cfg.opp.full
    /\ C6_DwellCovers(cps[1], FALSE) /\ C6_DwellCovers(cps[2], TRUE)
    /\ cps[2].pc = "done" /\ cps[2].enq /\ cps[2].req = "cancelled"
    /\ cps[1].connected /\ cps[1].trel < 0

----------------------------------------------------------------------------
(* Interfaces of a vehicle's subsystem (Spec).                             *)

\* C3: at every instant at most one of the charging interfaces of a
\* vehicle's subsystem is connected to a facility
C3_AtMostOneInterfaceConnected ==
    \A i \in DOMAIN veh :
        Cardinality({j \in Interfaces : veh[i].conn[j] # "none"}) <= 1

----------------------------------------------------------------------------
(* The charging handler under interrupts (Spec).                           *)

\* the steps of the except block's release of a handler
C5_Steps(cp) ==
    IF cp.undock THEN <<"disconnect", "undock", "release">>
    ELSE <<"disconnect", "release">>

\* C5: an interrupted charging handler disconnects the interface, then
\* undocks it, then releases the slot, and only then terminates; each step
\* leaves the interface disconnected, undocked and the request released
C5_InterruptedHandlerCleansUp ==
    /\ [](\A c \in DOMAIN cps :
            cps[c].interrupted =>
              /\ Len(cps[c].xlog) <= Len(C5_Steps(cps[c]))
              /\ cps[c].xlog = SubSeq(C5_Steps(cps[c]), 1, Len(cps[c].xlog))
              /\ cps[c].fc = "done" =>
                    (cps[c].xlog = C5_Steps(cps[c]) /\ cps[c].released))
    /\ [][\A c \in DOMAIN cps :
            (c \in DOMAIN cps' /\ cps'[c].xlog # cps[c].xlog) =>
              LET step == cps'[c].xlog[Len(cps'[c].xlog)]
                  v == veh'[cps[c].v]
              IN  /\ step = "disconnect" => v.conn[cps[c].i] = "none"
                  /\ step = "undock" => ~v.docked[cps[c].i]
                  /\ step = "release" => cps'[c].released]_vars

\* the depot has interrupted the charging handler of a vehicle it hands
\* out, and the handler has ended
C5_DepotInterruptedHandler ==
    \E s \in DOMAIN mis :
        /\ mis[s].wc # 0
        /\ cps[mis[s].wc].interrupted /\ cps[mis[s].wc].fc = "done"
        /\ cps[mis[s].wc].ok = "chg"

----------------------------------------------------------------------------
(* The depot's vehicles (Spec).                                            *)

\* C7: a vehicle in the ready queue is fully charged, it became full no
\* earlier than dead_time_before after its last return and it entered the
\* queue no earlier than dead_time_after after that
C7_ReadyOnlyAfterFullCycle ==
    \A v \in DOMAIN veh :
        In(depot.ready, v) =>
            /\ veh[v].energy = EnergyMax
            /\ veh[v].returned + cfg.dead_time_before <= veh[v].tfull
            /\ veh[v].tfull + cfg.dead_time_after <= veh[v].tready

\* C8: while the schedule runs that took a vehicle out of its charging, the
\* vehicle is in service and not in the ready queue; when such a vehicle
\* is in the ready queue later, the charging cycle of its last return put
\* it there, fully charged
C8_InterruptedVehicleBypassesReady ==
    /\ \A s \in DOMAIN mis :
          (mis[s].from = "charging" /\ mis[s].pc \notin {"idle", "done"}) =>
            /\ ~In(depot.ready, mis[s].v)
            /\ mis[s].pc \notin {"stopping", "wait_stop", "stopped"}
                  => In(depot.in_service, mis[s].v)
    /\ \A v \in DOMAIN veh :
          (/\ \E s \in DOMAIN mis :
                 mis[s].from = "charging" /\ mis[s].v = v
           /\ In(depot.ready, v)) =>
            /\ veh[v].readied = veh[v].cyc
            /\ veh[v].energy = EnergyMax

\* C9: request_vehicle hands out a ready vehicle of the requested type if
\* there is one; otherwise, if interrupt_charging is set, a charging
\* vehicle of that type whose estimated range is at least the requested
\* one, if there is one; otherwise, and only then, a new vehicle of the type
C9_RequestVehiclePolicy ==
    [][(err = "" /\ queue # <<>> /\ Head(queue).k = "Depart") =>
        LET m == mis'[Head(queue).id]
            R == {u \in Range(depot.ready) : veh[u].typ = m.typ}
            I == {u \in Range(depot.charging) :
                    /\ veh[u].typ = m.typ
                    /\ veh[u].energy >= m.range * RangeEstimationConsumption}
        IN  IF R # {}
            THEN m.v \in R /\ veh' = veh
            ELSE IF cfg.interrupt_charging /\ I # {}
            THEN m.v \in I /\ veh' = veh
            ELSE /\ Len(veh') = Len(veh) + 1
                 /\ m.v = Len(veh')
                 /\ veh'[m.v].typ = m.typ]_vars

\* a schedule that asked for the full range has been given a vehicle out
\* of its charging, and the vehicle is in service
C9_HandedOutFromCharging ==
    \E s \in DOMAIN mis :
        /\ mis[s].from = "charging" /\ mis[s].range = EnergyMax
        /\ In(depot.in_service, mis[s].v)

----------------------------------------------------------------------------
(* Error handling of the storage and the controller.                       *)

C12_SecondConnectFailsWithoutEffect ==
    [][\A c \in DOMAIN cps :
          LET cp == cps[c]
          IN  ( /\ c \in DOMAIN cps' /\ cp.v \in DOMAIN veh'
                /\ cps'[c].tconn # cp.tconn
                /\ \E k \in Interfaces \ {cp.i} :
                      veh[cp.v].conn[k] # "none" )
              => (err' # "" /\ veh'[cp.v].conn[cp.i] = "none")]_vars

----------------------------------------------------------------------------
(* The MultiPort (SpecMultiPort).                                          *)

\* the flows of the ports in the set S, added up
RECURSIVE C13_Total(_)
C13_Total(S) ==
    IF S = {} THEN 0
    ELSE LET p == CHOOSE q \in S : TRUE
         IN  ports.flow[p] + C13_Total(S \ {p})

\* C13: after every state-change notification from one of the input ports
\* of a MultiPort, the flow of its output port is the sum of the flows of
\* all its input ports
C13_OutputIsSumAfterNotification ==
    ports.notified => ports.out = C13_Total(Range(ports.in_ports))

\* a notification has left a non-zero sum of two non-zero inputs, one of
\* them a producer, behind
C13_NotifiedWithSeveralInputs ==
    /\ ports.notified /\ ports.out # 0 /\ Len(ports.in_ports) >= 2
    /\ \E p, q \in Range(ports.in_ports) :
          ports.flow[p] < 0 /\ ports.flow[q] > 0

----------------------------------------------------------------------------
(* Timestamps (SpecTimeInfo).                                              *)

\* C14 as stated: for every timestamp t and every dt >= 0, (t + dt) - t = dt
C14_AddThenSubtractGivesBack ==
    (tinfo # NoTimeInfo /\ tinfo.diff # -1) => tinfo.diff = tinfo.dt

\* C14: for every timestamp t and every dt with 0 <= dt < one week,
\* (t + dt) - t = dt
C14_AddThenSubtractWithinAWeek ==
    (tinfo # NoTimeInfo /\ tinfo.diff # -1 /\ tinfo.dt < SecOfWeek)
        => tinfo.diff = tinfo.dt

\* a sum that went past the end of the week has been subtracted from
C14_SubtractedAcrossWeekEnd ==
    /\ tinfo # NoTimeInfo /\ tinfo.diff # -1
    /\ tinfo.dt > SecOfDay /\ tinfo.dt < SecOfWeek
    /\ TimeInfo_lt(tinfo.sum, tinfo.t)

----------------------------------------------------------------------------
(* The schedule generator (SpecGenerator).                                 *)

\* C15: in every schedule the generator returns, each leg arrives no later
\* than the next leg departs, the pull-out leg and the legs joined by the
\* concatenation included
C15_LegsInOrderOfTime ==
    (gen # NoGen /\ gen.pc = "returned") =>
        \A s \in 1..Len(gen.save_schedules) :
            LET node == gen.save_schedules[s].node
            IN  \A j \in 1..(Len(node) - 1) :
                    ~TimeInfo_lt(node[j + 1].departure, arrival(node[j]))

\* the schedules the concatenation has made so far
C16_Merged ==
    {s \in Range(gen.new_schedules) \cup Range(gen.save_schedules)
           \cup (IF gen.schedule1 = <<>> THEN {} ELSE {gen.schedule1}) :
        s.merged}

\* C16: a schedule made by the concatenation, its deadhead trip included,
\* has a capacity that never falls below 0 and, when the static-range
\* constraint is enabled, a distance within the static range
C16_MergedMeetsConstraints ==
    gen # NoGen =>
        \A s \in C16_Merged :
            /\ capacity(s.node, gen.params).capacity_min >= 0
            /\ gen.params.use_static_range =>
                  node_distance(s.node) <= gen.params.static_range

\* a returned schedule was joined with a deadhead trip between two stops
\* while the static-range constraint was enabled
C16_ReturnedJoinedByDeadhead ==
    /\ gen # NoGen /\ gen.pc = "returned" /\ gen.params.use_static_range
    /\ \E s \in Range(gen.save_schedules) :
          /\ s.merged
          /\ \E j \in 2..(Len(s.node) - 1) :
                s.node[j].trip_type = "empty"

\* two schedules that could be joined were not, because the joined schedule
\* would not meet the constraints
C16_JoinRefused ==
    /\ gen # NoGen /\ gen.pc = "returned" /\ gen.params.deadheading
    /\ Len(gen.schedule_list) = 2 /\ Len(gen.save_schedules) = 2
    /\ \E a, b \in Range(gen.schedule_list) :
          concatenate_schedules(a, b, 0, gen.params).ok

\* the last passenger trip of a schedule and the first one of another
C17_Last(a) == a.node[last_passenger(a.node)]
C17_First(b) == b.node[first_passenger(b.node)]

\* the generator has made two duties a and b of one vehicle type, the last
\* passenger trip of a ends at X at 09:00, the first one of b begins at X at
\* 09:15, and max_deadheading_duration is 1800 s
C17_Case(a, b) ==
    /\ gen # NoGen /\ gen.pc = "returned"
    /\ gen.params.max_deadheading_duration = 1800
    /\ Len(gen.schedule_list) = 2
    /\ a \in Range(gen.schedule_list) /\ b \in Range(gen.schedule_list)
    /\ a.key # b.key /\ a.vehicle_type = b.vehicle_type
    /\ C17_Last(a).destination = "X"
    /\ arrival(C17_Last(a)) = [day |-> "Monday", time |-> 9 * SecPerHour]
    /\ C17_First(b).origin = "X"
    /\ C17_First(b).departure =
          [day |-> "Monday", time |-> 9 * SecPerHour + 900]

\* one duty is returned: in it the first passenger trip of b follows the
\* last one of a, after a dwell of 900 s and with no deadhead trip between
\* them, and its capacity never falls below 0
C17_Joined(a, b) ==
    /\ Len(gen.save_schedules) = 1
    /\ LET node == gen.save_schedules[1].node
       IN  /\ \E j \in 1..(Len(node) - 1) :
                 /\ node[j].trip_type = "passenger"
                 /\ node[j].ID = C17_Last(a).ID
                 /\ node[j].pause = 900
                 /\ node[j + 1].trip_type = "passenger"
                 /\ node[j + 1].ID = C17_First(b).ID
           /\ capacity(node, gen.params).capacity_min >= 0

\* a up to its last passenger trip, a dwell of 900 s, b from its first
\* passenger trip
C17_Sum(a, b) ==
    LET n == last_passenger(a.node)
    IN  [SubSeq(a.node, 1, n) EXCEPT ![n].pause = 900]
        \o SubSeq(b.node, first_passenger(b.node), Len(b.node))

\* what the concatenation asks of a and b: it is enabled, their lines are
\* the same or may be mixed, the charging pause of a at X ends by 09:15,
\* and the joined duty meets the capacity and range constraints
C17_MayBeJoined(a, b) ==
    /\ gen.params.deadheading
    /\ gen.params.mix_lines_deadheading
          \/ C17_Last(a).line = C17_First(b).line
    /\ C17_Last(a).charge => C17_Last(a).pause <= 900
    /\ capacity(C17_Sum(a, b), gen.params).capacity_min >= 0
    /\ gen.params.use_static_range =>
          node_distance(C17_Sum(a, b)) <= gen.params.static_range

\* C17 as stated: the two duties are concatenated into one duty
C17_ConcatenatedAsStated ==
    \A a, b \in (IF gen = NoGen THEN {} ELSE Range(gen.schedule_list)) :
        C17_Case(a, b) => C17_Joined(a, b)

\* C17: the two duties are concatenated into one duty with a dwell of 900 s,
\* no deadhead trip between them and a capacity that never falls below 0,
\* provided the concatenation is enabled, their lines are the same or may be
\* mixed, the charging pause after the last trip of the first ends by 09:15,
\* and the joined duty meets the capacity and range constraints
C17_ConcatenatedWhenAllowed ==
    \A a, b \in (IF gen = NoGen THEN {} ELSE Range(gen.schedule_list)) :
        (C17_Case(a, b) /\ C17_MayBeJoined(a, b)) => C17_Joined(a, b)

\* two such duties have been concatenated
C17_TwoDutiesConcatenated ==
    \E a, b \in (IF gen = NoGen THEN {} ELSE Range(gen.schedule_list)) :
        C17_Case(a, b) /\ C17_MayBeJoined(a, b) /\ C17_Joined(a, b)

\* the passenger trips among the trips of a schedule node
C18_PassengerTrips(node) ==
    {j \in 1..Len(node) : node[j].trip_type = "passenger"}

\* C18: when the duty under construction has lost its last passenger trip,
\* the next step of the generator is to abort with a fatal error, without
\* another schedule and without taking the trip up again; and no schedule
\* without a passenger trip is ever emitted
C18_UnserviceableTripAborts ==
    [][gen # NoGen =>
         /\ ( /\ gen.pc = "finish"
              /\ C18_PassengerTrips(gen.schedule_node) = {} )
            => /\ gen'.pc = "error"
               /\ gen'.error = "Unserviceable trips in timetable"
               /\ gen'.schedule_list = gen.schedule_list
               /\ gen'.unprocessed_trips = gen.unprocessed_trips
         /\ \A s \in Range(gen'.schedule_list)
                      \cup Range(gen'.save_schedules) :
               C18_PassengerTrips(s.node) # {}]_vars

\* the generator has aborted: the duty is left with its pull-out trip, and
\* the passenger trip it could not keep is back among the unprocessed trips
C18_AbortedWithTripTakenBack ==
    /\ gen # NoGen /\ gen.pc = "error"
    /\ gen.error = "Unserviceable trips in timetable"
    /\ Len(gen.schedule_node) = 1
    /\ gen.schedule_node[1].trip_type = "empty"
    /\ Len(gen.unprocessed_trips) = NumTrips


----------------------------------------------------------------------------
\* the arrivals and the pauses a driver has recorded so far
C19_Arrivals == IF drv = NoDrive THEN {} ELSE Range(drv.arrivals)
C19_Breaks == IF drv = NoDrive THEN {} ELSE Range(drv.breaks)

\* the segments of a leg that carry a delay of 120 s, among the first n
C19_Delayed(leg_node, n) ==
    {i \in 1..n : leg_node.segments[i].delay = 120}

C19_OnlyDelay(leg_node, begin, i, n) ==
    /\ begin = TimeInfo_abs(leg_node.departure)
    /\ \A j \in 1..n : leg_node.segments[j].delay = (IF j = i THEN 120 ELSE 0)
    /\ TimeInfo_abs(segment_arrival(leg_node, n))
           >= TimeInfo_abs(leg_node.departure)

----------------------------------------------------------------------------
(* A depot charge stopped for a dispatch (Spec).                           *)

\* the stages of a depot full charge: waiting for a slot, manoeuvring in,
\* docking, and charging or undocking under the charging handler
C21_Stages == {"wait_rh", "man_before", "docking", "wait_fc"}

\* the vehicle of schedule s has been in the full charge of its last return
\* since before the present instant and is in one of its stages, or
\* stop_charging has interrupted its charging handler
C21_InFullCharge(s) ==
    LET d == veh[mis[s].v].cyc
    IN  \/ mis[s].wc # 0
        \/ /\ d \in DOMAIN chg /\ chg[d].pc = "charge_full"
           /\ chg[d].cp # 0 /\ cps[chg[d].cp].pc \in C21_Stages
           /\ cps[chg[d].cp].t0 < now

\* C21: when a vehicle that the depot took out of a stage of its full
\* charge enters service, its depot interface is disconnected and undocked
\* and none of its charging processes at the depot holds a slot or waits
\* for one
C21_StoppedChargeLeavesNothing ==
    [][(Due("StopEnd") /\ C21_InFullCharge(Head(queue).id)) =>
          LET v == mis[Head(queue).id].v
              i == InterfaceAt("depot")
          IN  /\ In(depot'.in_service, v)
              /\ veh'[v].conn[i] = "none"
              /\ ~veh'[v].docked[i]
              /\ \A c \in DOMAIN cps' :
                    (cps'[c].v = v /\ cps'[c].f = "depot") =>
                        /\ cps'[c].req # "queued"
                        /\ cps'[c].req = "granted" => cps'[c].released]_vars

----------------------------------------------------------------------------
(* Charging without queueing.                                              *)

----------------------------------------------------------------------------
(* The time check before a request (SpecCharging).                         *)

\* the charging process at the head of the event queue is about to start,
\* attempts charging for an interval that is not charge-full, and is not
\* turned away by an occupied facility
C23_TimedAttempt ==
    /\ Due("CpInit")
    /\ LET cp == cps[Head(queue).id]
       IN  /\ cp.try /\ ~cp.full
           /\ is_vacant(World, cp.f) \/ cp.queue

\* the time that remains of the interval of cp after the minimum charge
\* duration, the docking if the interface is not docked, the undocking if
\* the next location cannot use the interface, and the manoeuvre to the
\* charging point if the facility is occupied
C23_TimeForRequest(cp) ==
    cp.dur - cp.minc
        - B2N(~veh[cp.v].docked[cp.i]) * cfg.dead_time
        - B2N(select_interface(cp.next) # cp.i) * cfg.dead_time
        - B2N(~is_vacant(World, cp.f)) * cfg.manoeuvre

\* the quantity of the statement: every dead time and both manoeuvres count
C23_TimeAsStated(cp) ==
    cp.dur - cfg.dead_time - cfg.dead_time
        - cfg.manoeuvre - cfg.manoeuvre - cp.minc

\* C23 (as stated): for an interval that is not charge-full the request
\* handler is started only if duration - dock_time - undock_time -
\* manoeuvre_before - manoeuvre_after - min_charge_duration >= 0
C23_RequestedAsStated ==
    [][C23_TimedAttempt =>
          LET c == Head(queue).id
          IN  cps'[c].rh # "none" => C23_TimeAsStated(cps[c]) >= 0]_vars

\* C23: for an interval that is not charge-full the request handler is
\* started if and only if the duration less the minimum charge duration
\* and the dead times and manoeuvre that apply is not negative; otherwise
\* the process only waits for the end of the interval
C23_RequestedWhenTimeSuffices ==
    [][C23_TimedAttempt =>
          LET c == Head(queue).id
          IN  IF C23_TimeForRequest(cps[c]) >= 0
              THEN cps'[c].rh = "init" /\ cps'[c].pc = "wait_rh"
              ELSE /\ cps'[c].rh = "none" /\ cps'[c].req = "none"
                   /\ cps'[c].pc \in {"wait_end", "done"}]_vars

\* a vehicle found the facility vacant but its pause is too short for the
\* docking, the undocking and the minimum charge duration: it made no
\* request and waits for the end of the interval
C23_SkippedForLackOfTime ==
    \E c \in DOMAIN cps :
        /\ cps[c].try /\ ~cps[c].full
        /\ cps[c].pc = "wait_end" /\ cps[c].rh = "none"
        /\ cps[c].req = "none"
        /\ items[cps[c].f] = 1..Capacity
        /\ cps[c].minc > 0
        /\ cps[c].dur < cps[c].minc + 2 * cfg.dead_time

----------------------------------------------------------------------------
(* The end of a charging interval (SpecOnward).                            *)

\* the next location has no facility for the vehicle, or one of another
\* interface type while the interface cannot undock in motion
C24_MustUndock(cp) ==
    \/ select_interface(cp.next) = 0
    \/ select_interface(cp.next) # cp.i /\ ~cfg.dynamic_undock

\* the condition of the statement: the next location cannot reuse the
\* interface and the interface type's dynamic_undock is false
C24_MustUndockAsStated(cp) ==
    select_interface(cp.next) # cp.i /\ ~cfg.dynamic_undock

\* the charging handler of process c has connected the interface and ended
C24_Completed(c) == cps[c].connected /\ cps[c].fc = "done" /\ err = ""

\* the order of the release: a step that undocks the interface of a
\* connected process finds it disconnected and the slot still held, and a
\* step that releases the slot finds the interface disconnected
C24_ReleaseInOrder ==
    \A c \in DOMAIN cps :
        LET v == cps[c].v
            i == cps[c].i
        IN  cps[c].connected /\ cps[c].fc # "done" =>
              /\ (veh[v].docked[i] /\ ~veh'[v].docked[i]) =>
                    /\ veh[v].conn[i] = "none"
                    /\ ~cps[c].released /\ ~cps'[c].released
              /\ (~cps[c].released /\ cps'[c].released) =>
                    /\ veh'[v].conn[i] = "none"
                    /\ C24_MustUndock(cps[c]) => ~veh[v].docked[i]

\* C24 (as stated): when a charging interval is completed the interface has
\* been undocked exactly if the next location cannot reuse it and
\* dynamic_undock is false
C24_UndockedAsStated ==
    \A c \in DOMAIN cps :
        C24_Completed(c) =>
            (~veh[cps[c].v].docked[cps[c].i] <=> C24_MustUndockAsStated(cps[c]))

\* C24: when a charging interval is completed the interface is disconnected,
\* the slot is released, and the interface has been undocked exactly if the
\* next location has no facility for the vehicle, or has one of another
\* interface type and dynamic_undock is false; the interface is
\* disconnected before it is undocked and the slot is released after that
C24_UndockedWhenNotReusable ==
    /\ [](\A c \in DOMAIN cps :
            C24_Completed(c) =>
              /\ veh[cps[c].v].conn[cps[c].i] = "none"
              /\ cps[c].released
              /\ ~veh[cps[c].v].docked[cps[c].i] <=> C24_MustUndock(cps[c]))
    /\ [][C24_ReleaseInOrder]_vars

\* a vehicle whose interface can undock in motion has completed its
\* interval before a location with a facility of another interface type and
\* leaves with the interface docked
C24_LeftDocked ==
    \E c \in DOMAIN cps :
        /\ C24_Completed(c) /\ cps[c].released
        /\ veh[cps[c].v].docked[cps[c].i]
        /\ cfg.dynamic_undock /\ cps[c].next = "depot"

----------------------------------------------------------------------------
(* The flows of the charge controller (SpecStorage).                       *)

\* the flows ChargeController._update sets for the vehicle's load flow,
\* supply and storage as they are
C25_Flows ==
    controller_flows(veh[1].load, max_supply(veh[1]),
                     flow_limit_upper(veh[1].energy))

\* C25: in consumption (load flow L >= 0, supply S of the connected
\* interface, 0 without one) the controller's update sets
\* interface-to-load = min(L, S), storage-to-load = L - interface-to-load
\* and interface-to-storage = min(S - interface-to-load, flow_limit_upper)
C25_ConsumptionFlows ==
    LET L == veh[1].load
        S == max_supply(veh[1])
        limit == flow_limit_upper(veh[1].energy)
        fl == C25_Flows
    IN  L >= 0 =>
          /\ veh[1].ctrl_conn = 0 => S = 0
          /\ fl.interface_to_load = Min(L, S)
          /\ fl.storage_to_load = L - fl.interface_to_load
          /\ fl.interface_to_storage = Min(S - fl.interface_to_load, limit)
          /\ fl.load_to_storage = 0 /\ fl.load_to_interface = 0

\* a standing vehicle with a connected interface and a storage that is not
\* full draws a load below the supply: the interface serves the load and
\* the controller has set the charge port to the rest, cut to the storage's
\* limit
C25_LoadAndChargeFromInterface ==
    /\ hist.changes > 0
    /\ veh[1].ctrl_conn # 0 /\ ~veh[1].driving
    /\ veh[1].load = UnitFlow /\ ~is_full(veh[1].energy)
    /\ C25_Flows.interface_to_storage = FlowLimitUpperAbs
    /\ veh[1].cport = 0 - FlowLimitUpperAbs

\* C26: in recuperation (L < 0) load-to-storage = min(|L|, flow_limit_upper)
\* and, unless a bidirectional interface is connected, load-to-interface
\* is 0 and the interface port flow is not negative
C26_RecuperationFlows ==
    LET L == veh[1].load
        limit == flow_limit_upper(veh[1].energy)
        fl == C25_Flows
    IN  L < 0 =>
          /\ fl.load_to_storage = Min(Abs(L), limit)
          /\ ~bidirectional(veh[1]) =>
                /\ fl.load_to_interface = 0
                /\ interface_port_flow(fl) >= 0

----------------------------------------------------------------------------
(* The duties of the greedy phase (SpecGenerator).                         *)

\* the trips of a schedule node meet the constraints: the capacity never
\* falls below 0 and, when the static-range constraint is enabled, the
\* distance is within the static range
C27_MeetsConstraints(node) ==
    /\ capacity_upto(node, Len(node), gen.params).capacity_min >= 0
    /\ gen.params.use_static_range =>
          node_distance(node) <= gen.params.static_range

\* the duty under construction, closed with its pull-in trip
C27_Closed ==
    add_deadhead_trip_end(
        [gen.schedule_node EXCEPT ![Len(gen.schedule_node)].pause = 0],
        gen.schedule_node[Len(gen.schedule_node)].line, Depot,
        gen.next_deadhead_trip_id, gen.params)

\* the duty under construction is to be closed, has a passenger trip and
\* would not meet the constraints with its pull-in trip
C27_LastTripViolates ==
    /\ gen # NoGen /\ gen.pc = "finish"
    /\ C18_PassengerTrips(gen.schedule_node) # {}
    /\ ~C27_MeetsConstraints(C27_Closed)

\* C27: every duty of the greedy phase is a pull-out trip, passenger trips
\* and a pull-in trip that meet the capacity and static-range constraints;
\* when the duty under construction would not meet them with its pull-in
\* trip, its last passenger trip goes back to the unprocessed trips, no
\* duty is emitted and the duty is closed again without that trip
C27_GreedyDutiesMeetConstraints ==
    /\ [](gen # NoGen =>
            \A s \in Range(gen.schedule_list) :
                /\ C27_MeetsConstraints(s.node)
                /\ s.node[1].trip_type = "empty"
                /\ s.node[Len(s.node)].trip_type = "empty"
                /\ C18_PassengerTrips(s.node) = 2..(Len(s.node) - 1))
    /\ [][C27_LastTripViolates =>
            LET node == gen.schedule_node
                k == Len(node)
            IN  /\ gen'.schedule_list = gen.schedule_list
                /\ gen'.schedule_node = SubSeq(node, 1, k - 1)
                /\ Len(gen'.unprocessed_trips) =
                       Len(gen.unprocessed_trips) + 1
                /\ \E j \in 1..Len(gen'.unprocessed_trips) :
                       gen'.unprocessed_trips[j].ID = node[k].ID
                /\ gen'.pc = "finish"]_vars

\* the first duty was closed at the second attempt, after its last
\* passenger trip had been taken back, and the trip went into a later duty
C27_ClosedWithoutLastTrip ==
    /\ gen # NoGen /\ Len(gen.schedule_list) = 2
    /\ LET node == gen.schedule_list[1].node
       IN  /\ node[1].ID = 0
           /\ node[Len(node)].trip_type = "empty" /\ node[Len(node)].ID = 2
           /\ C27_MeetsConstraints(node)

----------------------------------------------------------------------------
(* Delays in the minimum dwell (SpecDelays).                               *)

\* the greedy phase looks for the trip that follows a passenger trip
C28_Searching ==
    /\ gen # NoGen /\ gen.pc = "extend" /\ Len(gen.schedule_node) > 1
    /\ ~range_exceeded(gen.schedule_node, gen.params)
    /\ capacity(gen.schedule_node, gen.params).capacity_min >= 0

\* the trip the duty under construction ends with
C28_Current == gen.schedule_node[Len(gen.schedule_node)]

\* the trip arrives at a stop where charging is possible
C28_Chargeable ==
    charging_possible(C28_Current.destination, gen.params)

\* the slack of the statement: by the mode alone
C28_SlackAsStated ==
    IF /\ gen.params.add_delays
       /\ \/ gen.params.delay_mode = "all"
          \/ gen.params.delay_mode = "charging_only" /\ C28_Chargeable
          \/ /\ gen.params.delay_mode = "selected_only"
             /\ C28_Current.ID \in gen.params.delayed_trip_ids
    THEN Max(0, C28_Current.delay - gen.params.delay_threshold)
    ELSE 0

\* the slack with delayed_trip_ids counted in every mode
C28_Slack ==
    IF /\ gen.params.add_delays
       /\ \/ gen.params.delay_mode = "all"
          \/ gen.params.delay_mode = "charging_only" /\ C28_Chargeable
          \/ C28_Current.ID \in gen.params.delayed_trip_ids
    THEN Max(0, C28_Current.delay - gen.params.delay_threshold)
    ELSE 0

\* the unprocessed trips that may follow when the minimum dwell after the
\* current trip is the slack and then the longer of min_pause_duration and
\* the charge duration
C28_Candidates(slack) ==
    LET k == Len(gen.schedule_node)
        charge_dur ==
            IF C28_Chargeable
            THEN charge_duration([gen.schedule_node EXCEPT ![k].charge = TRUE],
                                 gen.params)
            ELSE 0
        min_departure_time ==
            addSeconds(arrival(C28_Current),
                       slack + Max(gen.params.min_pause_duration, charge_dur))
    IN  {j \in 1..Len(gen.unprocessed_trips) :
            /\ gen.unprocessed_trips[j].origin = C28_Current.destination
            /\ gen.unprocessed_trips[j].vehicle_type =
                   gen.schedule_node[1].vehicle_type
            /\ gen.unprocessed_trips[j].line = gen.line
            /\ ~TimeInfo_lt(gen.unprocessed_trips[j].departure,
                            min_departure_time)}

\* the step of the greedy phase under that minimum dwell: the earliest
\* candidate follows unless the pause before it is too long, and the duty
\* is finished when there is none
C28_FollowedAfter(slack) ==
    LET k == Len(gen.schedule_node)
        cand == C28_Candidates(slack)
        j == CHOOSE x \in cand : \A y \in cand : x <= y
        next_trip == gen.unprocessed_trips[j]
    IN  IF cand = {}
        THEN gen'.pc = "finish" /\ Len(gen'.schedule_node) = k
        ELSE IF TimeInfo_sub(next_trip.departure, arrival(C28_Current))
                    > gen.params.max_pause_duration
        THEN gen'.pc = "finish" /\ Len(gen'.schedule_node) = k
        ELSE /\ Len(gen'.schedule_node) = k + 1
             /\ gen'.schedule_node[k + 1].ID = next_trip.ID

\* C28 (as stated): the slack max(0, delay - threshold) is in the minimum
\* dwell after every trip in mode all, only after trips arriving at a
\* chargeable stop in mode charging_only, and only after trips in
\* delayed_trip_ids in mode selected_only
C28_SlackByModeAsStated ==
    [][C28_Searching => C28_FollowedAfter(C28_SlackAsStated)]_vars

\* C28: with add_delays on, the slack max(0, delay - threshold) is in the
\* minimum dwell after every trip in mode all, after trips arriving at a
\* chargeable stop in mode charging_only, and after the trips in
\* delayed_trip_ids in every mode; after no other trip
C28_SlackByModeAndSelection ==
    [][C28_Searching => C28_FollowedAfter(C28_Slack)]_vars

\* in mode selected_only the selected first trip, 900 s late, is not
\* followed by the trip that leaves its destination 15 minutes after its
\* arrival, where no charging is possible and the minimum pause is 240 s
C28_SelectedDelayKeepsTripOut ==
    /\ gen # NoGen /\ gen.pc = "finish"
    /\ gen.params.add_delays /\ gen.params.delay_mode = "selected_only"
    /\ gen.params.delayed_trip_ids = {1} /\ gen.params.delay_threshold = 0
    /\ gen.params.charging_point_names = {}
    /\ Len(gen.schedule_node) = 2 /\ gen.schedule_node[2].ID = 1
    /\ gen.schedule_node[2].delay = 900
    /\ \E j \in 1..Len(gen.unprocessed_trips) :
          /\ gen.unprocessed_trips[j].origin = gen.schedule_node[2].destination
          /\ TimeInfo_sub(gen.unprocessed_trips[j].departure,
                          arrival(gen.schedule_node[2])) = 900

----------------------------------------------------------------------------
(* The shape of the duties returned (SpecGenerator).                       *)

\* the pull-out trips and the pull-in trips among the trips of a node
C29_PullOuts(node) ==
    {j \in 1..Len(node) :
        node[j].trip_type = "empty" /\ node[j].origin = Depot}
C29_PullIns(node) ==
    {j \in 1..Len(node) :
        node[j].trip_type = "empty" /\ node[j].destination = Depot}

\* C29: every duty the generator returns, concatenated or not, has exactly
\* one pull-out trip from the depot, which is its first trip, exactly one
\* pull-in trip to the depot, which is its last, and at least one passenger
\* trip, all passenger trips lying between the two
C29_DutyFromPullOutToPullIn ==
    (gen # NoGen /\ gen.pc = "returned") =>
        \A s \in Range(gen.save_schedules) :
            /\ C29_PullOuts(s.node) = {1}
            /\ C29_PullIns(s.node) = {Len(s.node)}
            /\ C18_PassengerTrips(s.node) # {}
            /\ C18_PassengerTrips(s.node) \subseteq 2..(Len(s.node) - 1)

\* the generator has returned one duty that the concatenation made of two
\* without a deadhead trip between them, beside duties or alone
C29_ReturnedJoinedDirectly ==
    /\ gen # NoGen /\ gen.pc = "returned"
    /\ \E s \in Range(gen.save_schedules) :
          /\ s.merged /\ Len(s.node) = 4
          /\ C18_PassengerTrips(s.node) = {2, 3}

----------------------------------------------------------------------------
(* The MultiPort when its input ports change (SpecMultiPort).              *)

\* C30: immediately after add_port or remove_port the flow of the output
\* port is the sum of the flows of the input ports the MultiPort has then
C30_SumHoldsAfterMutation ==
    [][ports'.in_ports # ports.in_ports =>
          ports'.out = C13_Total(Range(ports'.in_ports))]_vars

----------------------------------------------------------------------------
(* Releases of a granted request (SpecCharging).                           *)

\* C31: the facility's release is invoked at most once for every granted
\* request, whether the charging handler ends on its own or is interrupted,
\* and the slot pool holds no more slots than the facility has IDs (the
\* pool of the model is the set of the free slots' IDs: SlotPool.release
\* puts back only a slot whose ID is not in the store)
C31_GrantedRequestReleasedOnce ==
    /\ \A c \in DOMAIN cps : cps[c].rels <= 1
    /\ \A f \in Facilities : items[f] \subseteq 1..Capacity

----------------------------------------------------------------------------
(* The length of a charging process.                                       *)

\* the instant at which the interval of the charging process cp ends
C32_End(cp) == cp.t0 + Max(cp.dur, 0)

\* C32: a charging process of an interval that is not charge-full ends
\* exactly max(duration, 0) seconds after it started: it ends at no other
\* instant, and it is not left running beyond that instant (in a run no
\* error has aborted)
C32_FinishesAtEndOfInterval ==
    /\ [](\A c \in DOMAIN cps :
            (err = "" /\ ~cps[c].full /\ cps[c].pc \notin {"init", "done"})
                => now <= C32_End(cps[c]))
    /\ [][\A c \in DOMAIN cps :
            (~cps[c].full /\ cps[c].pc # "done" /\ cps'[c].pc = "done")
                => now' = C32_End([cps[c] EXCEPT !.t0 = cps'[c].t0])]_vars

----------------------------------------------------------------------------
(* The trips of the returned schedules (SpecGenerator).                    *)

\* how often the passenger trip with the ID k occurs in the schedules of
\* a list
C33_Occurrences(list, k) ==
    Cardinality({<<j, i>> \in (1..Len(list)) \X (1..(2 * NumTrips + 2)) :
                    /\ i <= Len(list[j].node)
                    /\ list[j].node[i].trip_type = "passenger"
                    /\ list[j].node[i].ID = k})

\* C33: when the generator has returned, every passenger trip of the
\* timetable is in exactly one of the returned schedules and occurs once
\* in it, and no returned schedule is longer than the trips it may hold,
\* whether the concatenation phase has run or not
C33_EveryTripInExactlyOneDuty ==
    (gen # NoGen /\ gen.pc = "returned") =>
        /\ \A k \in 1..NumTrips : C33_Occurrences(gen.save_schedules, k) = 1
        /\ \A s \in Range(gen.save_schedules) : Len(s.node) <= 2 * NumTrips + 2

\* the concatenation phase has joined the duties of all trips of the
\* timetable into the one schedule that is returned
C33_AllTripsInOneJoinedDuty ==
    /\ gen # NoGen /\ gen.pc = "returned" /\ gen.params.deadheading
    /\ Len(gen.save_schedules) = 1 /\ gen.save_schedules[1].merged
    /\ Len(gen.schedule_list) = NumTrips
    /\ \A k \in 1..NumTrips : C33_Occurrences(gen.save_schedules, k) = 1

----------------------------------------------------------------------------
(* The queues of the depot (Spec).                                         *)

\* how often vehicle v occurs in a queue
C34_Count(q, v) == Cardinality({j \in 1..Len(q) : q[j] = v})

\* the schedules that hold the vehicle v: it has been handed to them, or
\* is being handed to them, and they have not returned it
C34_Holding(v) ==
    {s \in DOMAIN mis : mis[s].v = v /\ mis[s].pc \notin {"idle", "done"}}

\* C34: every vehicle occurs at most once in the queues in_service,
\* charging and ready taken together, and no vehicle is held by two
\* schedules at a time
C34_VehicleInAtMostOneQueue ==
    \A v \in DOMAIN veh :
        /\ C34_Count(depot.in_service, v) + C34_Count(depot.charging, v)
               + C34_Count(depot.ready, v) <= 1
        /\ Cardinality(C34_Holding(v)) <= 1

\* a vehicle that was taken out of its charging has returned, and the
\* _charge process of an earlier return has moved it from the charging
\* queue to the ready queue
C34_ReadiedByEarlierCharge ==
    \E s \in DOMAIN mis :
        /\ mis[s].from = "charging" /\ mis[s].pc = "done"
        /\ In(depot.ready, mis[s].v)
        /\ veh[mis[s].v].readied # veh[mis[s].v].cyc

----------------------------------------------------------------------------
(* Charging without time limit comes to an end (SpecReturned).             *)

\* the run has come to its end: no event is scheduled, and no error has
\* aborted it
C35_RunEnded == err = "" /\ queue = <<>>

\* the returns have left nothing undone: every charge-full charging
\* process that was granted a slot has released it, and every vehicle is in
\* the ready queue
C35_AllDone ==
    /\ \A c \in DOMAIN cps :
          (cps[c].full /\ cps[c].req = "granted") => cps[c].released
    /\ \A v \in DOMAIN veh : In(depot.ready, v)

\* C35: every charge-full charging process that has been granted a slot
\* ends and releases it, whatever the energy of the storage was, from
\* empty to full, and every vehicle returned to the depot becomes ready (no
\* schedule asks for a vehicle): when the run ends, nothing is left undone
C35_FullChargeEndsAndVehicleReady ==
    C35_RunEnded => C35_AllDone

\* the same for the returns of vehicles whose storage is not full
C35_EndsWhenReturnedBelowFull ==
    (C35_RunEnded /\ \A v \in DOMAIN veh : ~is_full(cfg.energy[v]))
        => C35_AllDone

\* two vehicles have returned with an empty storage, and both are ready
C35_ChargedFromEmpty ==
    /\ C35_RunEnded /\ C35_AllDone
    /\ \A v \in DOMAIN veh : cfg.energy[v] = 0 /\ veh[v].energy = EnergyMax

\* C36: after every update of the charge controller the power is balanced:
\* the flow of the interface port plus the flow of the storage's charge port
\* is the flow of the load port, in consumption and in recuperation, with
\* and without a connected interface.
C36_PowerBalanced ==
    \A i \in DOMAIN veh : veh[i].iport + veh[i].cport = veh[i].load

\* recuperation above the storage's limit with an interface connected: the
\* storage takes its limit and the rest leaves through the interface port
C36_RecuperationWhileConnected ==
    /\ err = ""
    /\ veh[1].load < 0 /\ veh[1].ctrl_conn # 0
    /\ veh[1].cport < 0 /\ veh[1].iport < 0

----------------------------------------------------------------------------
(* What a connected interface implies (Spec).                              *)

\* vehicle i holds a slot of facility f: a request of one of its charging
\* processes there was granted and has not been released
C37_HoldsSlot(i, f) ==
    \E c \in DOMAIN cps :
        /\ cps[c].v = i /\ cps[c].f = f
        /\ cps[c].req = "granted" /\ ~cps[c].released

\* C37: whenever an interface of a vehicle is connected to a facility, the
\* vehicle holds a granted, not yet released slot of that facility, the
\* interface is docked and the vehicle is at the facility's location
C37_ConnectedHoldsSlotDockedAtFacility ==
    \A i \in DOMAIN veh : \A j \in Interfaces :
        veh[i].conn[j] # "none" =>
            /\ C37_HoldsSlot(i, veh[i].conn[j])
            /\ veh[i].docked[j]
            /\ veh[i].loc = veh[i].conn[j]

----------------------------------------------------------------------------
(* Termination of the generator (SpecGenerator).                           *)

\* the passenger trips that are in no finished schedule yet: the
\* unprocessed ones and those of the schedule under construction
C38_Unassigned ==
    Len(gen.unprocessed_trips)
        + Cardinality(C18_PassengerTrips(gen.schedule_node))

\* the passenger trips of the finished schedules
C38_Assigned(list) ==
    Cardinality({<<j, i>> \in (1..Len(list)) \X (1..(NumTrips + 2)) :
                    /\ i <= Len(list[j].node)
                    /\ list[j].node[i].trip_type = "passenger"})

\* the steps the concatenation phase has before it at most: every schedule
\* to be extended is tried against every connecting schedule
C38_ConcatenationRank ==
    IF gen.pc = "schedule1"
    THEN Len(gen.unprocessed_schedules) * (NumTrips + 2) + 1
    ELSE IF gen.pc = "schedule2"
    THEN Len(gen.unprocessed_schedules) * (NumTrips + 2)
             + Len(gen.connecting_schedules) + 2
    ELSE 0

\* the steps one iteration of the loop that builds schedules has before it
\* at most: trips are added while there are unprocessed ones, then taken
\* back while the schedule has any
C38_IterationRank ==
    IF gen.pc = "new" THEN 2 * (NumTrips + 3)
    ELSE IF gen.pc = "extend"
    THEN NumTrips + 3 + Len(gen.unprocessed_trips)
    ELSE Len(gen.schedule_node)

\* a number that bounds the steps the generator has before it
C38_Rank ==
    IF gen.pc \in {"returned", "error"} THEN 0
    ELSE IF gen.pc \in {"schedule1", "schedule2"} THEN C38_ConcatenationRank
    ELSE (NumTrips + 1) * (NumTrips + 2) + 2
             + C38_Unassigned * (2 * (NumTrips + 3) + 1)
             + C38_IterationRank

\* C38: the generator terminates: every step brings it nearer to its
\* return or to its error, every iteration of the loop that builds
\* schedules ends with one more finished schedule that holds at least one
\* passenger trip for good, or with the error, and the concatenation phase
\* takes up each schedule a bounded number of times
C38_GeneratorTerminates ==
    [][gen # NoGen =>
         /\ C38_Rank' < C38_Rank /\ C38_Rank' >= 0
         /\ (gen.pc = "finish" /\ gen'.pc = "new") =>
                /\ C38_Unassigned' < C38_Unassigned
                /\ Len(gen'.schedule_list) = Len(gen.schedule_list) + 1
         /\ gen'.pc \in {"new", "extend", "finish"} =>
                /\ C38_Assigned(gen'.schedule_list)
                       >= C38_Assigned(gen.schedule_list)
                /\ C38_Assigned(gen'.schedule_list) + C38_Unassigned'
                       = NumTrips]_vars

\* the generator has returned after an iteration that took a trip back
\* from the schedule under construction and after a concatenation
C38_ReturnedAfterTakingBackAndJoining ==
    /\ gen # NoGen /\ gen.pc = "returned"
    /\ gen.next_deadhead_trip_id > 2 * Len(gen.schedule_list)
    /\ \E s \in Range(gen.save_schedules) : s.merged

----------------------------------------------------------------------------
(* The time left for charging when the interface connects (SpecCharging).  *)

\* the time the charging process c has left for charging when it connects
\* its interface: the rest of the interval less the undocking
C39_ChargeTime(cp) ==
    cp.dur - (cp.tconn - cp.t0) - B2N(cp.undock) * cfg.dead_time

\* C39: the error 'Something went seriously wrong here.' is never raised:
\* a charging process that is bound to its interval and whose request was
\* granted within the maximum request time connects, after manoeuvring and
\* docking, with at least min_charge_duration >= 0 left for charging
C39_ChargeTimeNeverNegative ==
    /\ err # "Something went seriously wrong here."
    /\ \A c \in DOMAIN cps :
          (~cps[c].full /\ cps[c].tconn >= 0) =>
              /\ cps[c].minc >= 0
              /\ C39_ChargeTime(cps[c]) >= cps[c].minc

\* a charging process that queued for its slot and was granted it later has
\* manoeuvred or docked and connected with one second more than
\* min_charge_duration left
C39_ConnectedAfterQueueing ==
    \E c \in DOMAIN cps :
        /\ ~cps[c].full /\ cps[c].tconn >= 0 /\ cps[c].queueing
        /\ cps[c].tgrant > cps[c].t0 /\ cps[c].tconn > cps[c].tgrant
        /\ C39_ChargeTime(cps[c]) = cps[c].minc + 1

----------------------------------------------------------------------------
(* Seconds subtracted from a timestamp (SpecTimeInfo).                     *)

\* C40: subSeconds is the inverse of addSeconds: for every timestamp t and
\* every d with 0 <= d < one week, d seconds subtracted from t and then
\* added again give t, and the subtraction wraps the weekday backwards
\* across day 0 into the last day of the week
C40_SubtractThenAddGivesBack ==
    (tinfo # NoTimeInfo /\ tinfo.again # <<>> /\ tinfo.dt < SecOfWeek) =>
        /\ tinfo.again = tinfo.t
        /\ getSeconds(tinfo.back)
               = (getSeconds(tinfo.t) - tinfo.dt) % SecOfWeek

\* the part of C40 that holds: d seconds that do not reach back beyond the
\* beginning of day 0, subtracted from t and then added again, give t
C40_GivesBackWithinTheWeek ==
    ( /\ tinfo # NoTimeInfo /\ tinfo.again # <<>>
      /\ tinfo.dt <= getSeconds(tinfo.t) ) =>
        /\ tinfo.again = tinfo.t
        /\ getSeconds(tinfo.back) = getSeconds(tinfo.t) - tinfo.dt

====
